---- MODULE Spec2Model ----
\* A model of the code-signing action (src/src/main.ts): the signtool locator,
\* the certificate stager, the file enumerator, the per-file sign-and-verify
\* retry loop and the pipeline driver run().
\*
\* Strings are modelled as sequences of tokens so that the string operations of
\* the source (template concatenation, split, extname, Number, the version
\* regular expression) are computed and not looked up:
\*   - an SDK directory name is a sequence of characters ("1","0",".",...);
\*   - a file path is a sequence of pieces: a piece is a run of text without
\*     "/" or ".", the separator "/", or the dot ".".
EXTENDS Integers, Sequences, FiniteSets, TLC

VARIABLES
    entry,            \* the exported function that was called: run, signFiles, trySign, findSigntool
                      \* (trySign_calls, signFiles_calls: called several times over;
                      \* trySign_reconfig: the configuration changes under a call)
    inputs,           \* what getInput returns for each input name
    tree,             \* the file system under the target folder
    sdk,              \* the file system under the Windows SDK bin directory
    pc,               \* position of the single flow of control
    stage,            \* the statement of run() being executed
    signtoolPath,     \* main.ts:82, the cached tool path (Null when not computed)
    signtoolVersion,  \* version of the cached tool
    versionDirs,      \* findSigntool: the filtered, sorted version directories
    vi,               \* findSigntool: index of the version being probed
    located,          \* findSigntool: the value returned
    call,             \* trySign: file, ext, the inputs read, the resolved tool
    i,                \* trySign: loop counter
    stack,            \* getFiles: the generator frames, innermost last
    inflight,         \* external commands started and not yet returned
    log,              \* every observable effect, in order
    results,          \* value returned by each trySign call, in order
    raised,           \* an error escaped the called function
    faults            \* signing and verification commands rejected so far

vars == <<entry, inputs, tree, sdk, pc, stage, signtoolPath, signtoolVersion,
          versionDirs, vi, located, call, i, stack, inflight, log, results, raised,
          faults>>

\* ---------------------------------------------------------------- bounds

\* Most signing and verification commands the environment rejects in one behaviour.
MaxFaults == 5

\* Longest SDK directory listing drawn for findSigntool.
MaxListing == 3

\* Most calls of trySign made one after the other by a caller of trySign.
MaxCalls == 3

\* Most commands the environment rejects when signFiles is called on its own
\* and when trySign or signFiles is called repeatedly.
MaxRepeatFaults == 1

\* Most calls of signFiles made one after the other by a caller of signFiles.
MaxWalks == 2

\* ------------------------------------------------------- sequence helpers

Null == <<>>

RECURSIVE SelectIdx(_, _, _)
\* Indices k >= from of s with s[k] = x.
SelectIdx(s, x, from) ==
    IF from > Len(s) THEN {}
    ELSE (IF s[from] = x THEN {from} ELSE {}) \cup SelectIdx(s, x, from + 1)

Max(S) == CHOOSE m \in S : \A n \in S : n <= m

Min(S) == CHOOSE m \in S : \A n \in S : m <= n

\* String.prototype.split(sep) on a token sequence: the pieces between
\* occurrences of sep ("" split gives one empty piece).
Split(s, sep) ==
    LET at == {k \in 1..Len(s) : s[k] = sep}
        \* the position of the j-th separator; 0 and Len(s) + 1 stand at the ends
        Sep(j) == IF j = 0 THEN 0
                  ELSE IF j > Cardinality(at) THEN Len(s) + 1
                  ELSE CHOOSE p \in at : Cardinality({q \in at : q < p}) = j - 1
    IN [j \in 1..(Cardinality(at) + 1) |-> SubSeq(s, Sep(j - 1) + 1, Sep(j) - 1)]

RECURSIVE Join(_, _)
\* Array.prototype.join(sep).
Join(ss, sep) ==
    IF ss = <<>> THEN <<>>
    ELSE IF Len(ss) = 1 THEN ss[1]
    ELSE ss[1] \o <<sep>> \o Join(Tail(ss), sep)

Range(s) == {s[k] : k \in 1..Len(s)}

Includes(s, x) == \E k \in 1..Len(s) : s[k] = x

\* ----------------------------------------------------- version strings

DigitChars == <<"0", "1", "2", "3", "4", "5", "6", "7", "8", "9">>

IsDigit(c) == Includes(DigitChars, c)

DigitVal(c) == (CHOOSE k \in 1..Len(DigitChars) : DigitChars[k] = c) - 1

RECURSIVE ToNumber(_)
\* Number(s) for a string of decimal digits.
ToNumber(s) ==
    IF s = <<>> THEN 0
    ELSE 10 * ToNumber(SubSeq(s, 1, Len(s) - 1)) + DigitVal(s[Len(s)])

RECURSIVE Digits(_)
\* The decimal digits of n: builds the directory names of the listings.
Digits(n) ==
    IF n < 10 THEN <<DigitChars[n + 1]>>
    ELSE Digits(n \div 10) \o <<DigitChars[(n % 10) + 1]>>

V(a, b, c, d) == Join(<<Digits(a), Digits(b), Digits(c), Digits(d)>>, ".")

\* A pattern without its anchors and with the last group optional.
IsVersionDirLoose(dir) ==
    LET parts == Split(dir, ".")
    IN /\ Len(parts) >= 3
       /\ \A k \in 1..Len(parts) :
             parts[k] # <<>> /\ \A j \in 1..Len(parts[k]) : IsDigit(parts[k][j])

\* /^\d+\.\d+\.\d+\.\d+$/.test(dir)
IsVersionDir(dir) ==
    LET parts == Split(dir, ".")
    IN /\ Len(parts) = 4
       /\ \A k \in 1..4 : parts[k] # <<>> /\ \A j \in 1..Len(parts[k]) : IsDigit(parts[k][j])

\* a.split('.').map(Number)
Parts(v) == CHOOSE r \in {[k \in 1..Len(p) |-> ToNumber(p[k])] : p \in {Split(v, ".")}} : TRUE

RECURSIVE CompareFrom(_, _, _)
\* The loop of the sort comparator from index k on: bVal - aVal at the first
\* index where the values differ, 0 when none does.
CompareFrom(aParts, bParts, k) ==
    IF k > Max({Len(aParts), Len(bParts)}) THEN 0
    ELSE LET aVal == IF k <= Len(aParts) THEN aParts[k] ELSE 0
             bVal == IF k <= Len(bParts) THEN bParts[k] ELSE 0
         IN IF aVal # bVal THEN bVal - aVal ELSE CompareFrom(aParts, bParts, k + 1)

\* A comparator that returns aVal - bVal: the oldest version sorts first.
CompareVersionsAscending(a, b) == CompareFrom(Parts(b), Parts(a), 1)

\* The comparator handed to versionDirs.sort: negative when a sorts before b.
\* aParts and bParts are computed once, before the loop.
CompareVersions(a, b) ==
    CHOOSE r \in {CompareFrom(aParts, bParts, 1) : aParts \in {Parts(a)}, bParts \in {Parts(b)}} : TRUE

RECURSIVE InsertSorted(_, _)
InsertSorted(sorted, x) ==
    IF sorted = <<>> THEN <<x>>
    ELSE IF CompareVersions(sorted[1], x) <= 0
         THEN <<sorted[1]>> \o InsertSorted(Tail(sorted), x)
         ELSE <<x>> \o sorted

RECURSIVE SortVersions(_)
\* Array.prototype.sort with the comparator (a stable sort).
SortVersions(s) ==
    IF s = <<>> THEN <<>>
    ELSE InsertSorted(SortVersions(SubSeq(s, 1, Len(s) - 1)), s[Len(s)])

\* ------------------------------------------------------------ paths

Str(t) == <<t>>

EmptyStr == <<>>

\* `${folder}/${file}`
FullPath(folder, file) == folder \o <<"/">> \o file

\* path.basename: what follows the last separator.
BaseName(p) ==
    LET at == SelectIdx(p, "/", 1)
    IN IF at = {} THEN p ELSE SubSeq(p, Max(at) + 1, Len(p))

\* path.extname: from the last dot of the base name to its end; empty when the
\* base name has no dot, when its only dot is its first character, and for "..".
ExtName(p) ==
    LET b == BaseName(p)
        dots == SelectIdx(b, ".", 1)
    IN IF dots = {} THEN EmptyStr
       ELSE IF Max(dots) = 1 THEN EmptyStr
       ELSE IF b = <<".", ".">> THEN EmptyStr
       ELSE SubSeq(b, Max(dots), Len(b))

supportedFileExt ==
    << <<".", "dll">>, <<".", "exe">>, <<".", "sys">>, <<".", "vxd">>, <<".", "msix">>,
       <<".", "msixbundle">>, <<".", "appx">>, <<".", "appxbundle">>, <<".", "msi">>,
       <<".", "msp">>, <<".", "msm">>, <<".", "cab">>, <<".", "ps1">>, <<".", "psm1">> >>

certPath == <<"%TEMP%\\certificate", ".", "pfx">>

sdkBasePath == <<"C:/Program Files (x86)/Windows Kits/10/bin">>

\* `${sdkBasePath}/${version}/x86/signtool.exe`
ToolPathOf(version) == sdkBasePath \o <<"/">> \o version \o <<"/", "x86", "/", "signtool", ".", "exe">>

fallbackPath ==
    <<"C:/Program Files (x86)/Windows Kits/10/bin", "/", "1", "0", ".", "0", ".",
      "1", "7", "7", "6", "3", ".", "0", "/", "x86", "/", "signtool", ".", "exe">>

MockedPath == <<"C:/MockedSigntool/signtool", ".", "exe">>

\* Another path handed to the hook.
OtherPath == <<"C:/OtherSigntool/signtool", ".", "exe">>

\* ----------------------------------------------------------- events

Ev(op, target, args, ok) == [op |-> op, target |-> target, args |-> args, ok |-> ok, n |-> 0]

Info(op, target) == Ev(op, target, <<>>, TRUE)

LogError(msg) == Ev("error", Str(msg), <<>>, TRUE)

CountOp(l, op) == Cardinality({k \in 1..Len(l) : l[k].op = op})

NoCall == [file |-> EmptyStr, ext |-> EmptyStr, timestampServer |-> EmptyStr, sha1 |-> EmptyStr,
           certDesc |-> EmptyStr, signtool |-> EmptyStr, version |-> EmptyStr]

\* ------------------------------------------------------ environments

\* The tree of the enumeration test: {a.dll, b.txt, sub/{inner.exe}, pkg.nupkg}.
TreeTest ==
    [dirs |-> (<<"folder">> :>
                  << <<"a", ".", "dll">>, <<"b", ".", "txt">>, <<"sub">>, <<"pkg", ".", "nupkg">> >>)
              @@ (<<"folder", "/", "sub">> :> << <<"inner", ".", "exe">> >>),
     others |-> {}]

\* A directory named like a signable file, an entry that is neither a file nor
\* a directory, a dot file, a file without extension and an empty directory.
TreeOdd ==
    [dirs |-> (<<"folder">> :>
                  << <<"x", ".", "exe">>, <<"dev">>, <<".", "ps1">>, <<"README">> >>)
              @@ (<<"folder", "/", "x", ".", "exe">> :> << <<"y", ".", "d", ".", "msi">>, <<"deep">> >>)
              @@ (<<"folder", "/", "x", ".", "exe", "/", "deep">> :> <<>>),
     others |-> { <<"folder", "/", "dev">> }]

TreeEmpty == [dirs |-> (<<"folder">> :> <<>>), others |-> {}]

Trees == {TreeTest, TreeOdd, TreeEmpty}

SdkNames ==
    {V(10, 0, 17763, 0), V(10, 0, 19041, 0), V(10, 0, 22000, 0),
     V(10, 0, 9, 0), <<"1", "0", ".", "0", ".", "1">>}

Listings ==
    UNION {{l \in [1..n -> SdkNames] : \A j, k \in 1..n : j # k => l[j] # l[k]} : n \in 0..MaxListing}

SdkEnvs ==
    UNION {{[readable |-> TRUE, listing |-> l, present |-> p] : p \in SUBSET Range(l)} :
           l \in Listings}

SdkUnreadable == [readable |-> FALSE, listing |-> <<>>, present |-> {}]

SdkSmall ==
    [readable |-> TRUE,
     listing |-> <<V(10, 0, 17763, 0), <<"t", "m", "p">>, V(10, 0, 26100, 0)>>,
     present |-> {V(10, 0, 26100, 0)}]

InjectedVersions ==
    {V(10, 0, 26100, 0), V(10, 0, 17763, 0), V(10, 0, 9, 0), V(10, 0, 26100, 1),
     V(10, 0, 26099, 9), V(10, 1, 0, 0), V(9, 9, 99999, 9), V(11, 0, 0, 0)}

ValidInputs ==
    [folder |-> Str("folder"), recursive |-> Str("true"), certificate |-> Str("dGVzdA=="),
     password |-> Str("pw"), sha1 |-> Str("sha1"), certDesc |-> Str("Desc"),
     timestampServer |-> Str("http://ts")]

\* ---------------------------------------------------- findSigntool

\* The version paired with a located path: the directory whose binary was
\* confirmed, or the legacy version for the fallback.
fallbackVersion == V(10, 0, 17763, 0)

\* The value of the catch block of findSigntool.
FallbackResult == [path |-> fallbackPath, version |-> fallbackVersion]

\* versions.filter(...) then versionDirs.sort(...)
VersionDirsOf(versions) == SortVersions(SelectSeq(versions, IsVersionDir))

\* A try block that ends before the throw that follows the loop.
FindSigntoolCatchesListing(step) == step \in {"readdir", "filter"}

\* The try block of findSigntool holds the listing, the filter with its throw
\* and the loop with the throw after it.
FindSigntoolCatches(step) == step \in {"readdir", "filter", "loop"}

\* An error raised at a step of findSigntool: the catch block logs it and
\* returns the fallback; an error the try block does not hold is thrown on.
FindSigntoolFails(step, events) ==
    IF FindSigntoolCatches(step)
    THEN /\ log' = log \o events \o <<LogError("signtool discovery failed")>>
         /\ located' = FallbackResult
         /\ pc' = "findSigntool_return"
    ELSE /\ log' = log \o events
         /\ located' = located
         /\ pc' = "throw"

\* readdir of the SDK bin directory, the filter and the sort.
FindSigntoolList ==
    /\ pc = "findSigntool"
    /\ IF ~sdk.readable
       THEN /\ FindSigntoolFails("readdir", <<Ev("readdir", sdkBasePath, <<>>, FALSE)>>)
            /\ UNCHANGED <<versionDirs, vi>>
       ELSE IF VersionDirsOf(sdk.listing) = <<>>
       THEN /\ FindSigntoolFails("filter", <<Ev("readdir", sdkBasePath, <<>>, TRUE)>>)
            /\ UNCHANGED <<versionDirs, vi>>
       ELSE /\ log' = Append(log, Ev("readdir", sdkBasePath, <<>>, TRUE))
            /\ versionDirs' = VersionDirsOf(sdk.listing)
            /\ vi' = 1
            /\ pc' = "findSigntool_probe"
            /\ UNCHANGED located
    /\ UNCHANGED <<entry, inputs, tree, sdk, stage, signtoolPath, signtoolVersion, call, i,
                   stack, inflight, results, raised, faults>>

\* One iteration of the loop over versionDirs: stat the binary of the version
\* and return its path when it is there; past the last version, the throw.
FindSigntoolProbe ==
    /\ pc = "findSigntool_probe"
    /\ IF vi > Len(versionDirs)
       THEN /\ FindSigntoolFails("loop", <<>>)
            /\ UNCHANGED vi
       ELSE IF versionDirs[vi] \in sdk.present
       THEN /\ log' = Append(log, Ev("stat", ToolPathOf(versionDirs[vi]), <<>>, TRUE))
            /\ located' = [path |-> ToolPathOf(versionDirs[vi]), version |-> versionDirs[vi]]
            /\ pc' = "findSigntool_return"
            /\ UNCHANGED vi
       ELSE /\ log' = Append(log, Ev("stat", ToolPathOf(versionDirs[vi]), <<>>, FALSE))
            /\ vi' = vi + 1
            /\ UNCHANGED <<located, pc>>
    /\ UNCHANGED <<entry, inputs, tree, sdk, stage, signtoolPath, signtoolVersion,
                   versionDirs, call, i, stack, inflight, results, raised, faults>>

\* findSigntool called on its own returns to its caller.
FindSigntoolReturn ==
    /\ pc = "findSigntool_return"
    /\ entry = "findSigntool"
    /\ pc' = "done"
    /\ UNCHANGED <<entry, inputs, tree, sdk, stage, signtoolPath, signtoolVersion,
                   versionDirs, vi, located, call, i, stack, inflight, log, results, raised, faults>>

\* --------------------------------------------------------- trySign

\* A loop that stops one attempt early.
MaxAttemptsShort == 5 - 1

\* A loop that makes one attempt too many.
MaxAttemptsLong == 5 + 1

\* The loop bound of trySign.
MaxAttempts == 5

\* The oldest tool version that is given the file-digest-algorithm argument.
MinDigestVersion == V(10, 0, 26100, 0)

\* A gate that leaves the boundary version out.
UsesFileDigestStrict(version) == CompareVersions(version, MinDigestVersion) < 0

\* version >= MinDigestVersion, component by component as in the locator's sort.
UsesFileDigest(version) == CompareVersions(version, MinDigestVersion) <= 0

FileDigestArgs(version) ==
    IF UsesFileDigest(version) THEN <<Str("/fd"), Str("sha1")>> ELSE <<>>

\* An argument array built from the inputs as they are when the attempt is
\* made, as if getInput were called inside the loop.
signArgsReadsInputs(c) ==
    <<Str("sign"), Str("/sm"), Str("/t"), inputs.timestampServer, Str("/sha1"), inputs.sha1>>
    \o (IF inputs.certDesc # EmptyStr THEN <<Str("/d"), inputs.certDesc>> ELSE <<>>)
    \o FileDigestArgs(c.version)
    \o <<c.file>>

\* An argument array that is given the description even when it is empty.
signArgsAlwaysDescribed(c) ==
    <<Str("sign"), Str("/sm"), Str("/t"), c.timestampServer, Str("/sha1"), c.sha1>>
    \o <<Str("/d"), c.certDesc>>
    \o FileDigestArgs(c.version)
    \o <<c.file>>

\* The argument array of the signing command.
signArgs(c) ==
    <<Str("sign"), Str("/sm"), Str("/t"), c.timestampServer, Str("/sha1"), c.sha1>>
    \o (IF c.certDesc # EmptyStr THEN <<Str("/d"), c.certDesc>> ELSE <<>>)
    \o FileDigestArgs(c.version)
    \o <<c.file>>

verifyArgs(c) == <<Str("verify"), Str("/pa"), c.file>>

\* A command that is left running while control goes on.
AwaitedStillRunning(cmds) == cmds

\* await on the oldest command in flight: when control resumes, the command
\* has settled and is in flight no more.
Awaited(cmds) == Tail(cmds)

\* The outcomes the environment may give a signing or verification command.
Outcomes ==
    IF faults < (IF entry \in {"signFiles", "trySign_calls", "signFiles_calls", "trySign_reconfig"}
                 THEN MaxRepeatFaults
                 ELSE MaxFaults)
    THEN BOOLEAN
    ELSE {TRUE}

\* A wait of one second whatever it is asked.
WaitFixed(seconds) == [Ev("wait", EmptyStr, <<>>, TRUE) EXCEPT !.n = 1]

\* wait(seconds): a timer of that many seconds.
Wait(seconds) == [Ev("wait", EmptyStr, <<>>, TRUE) EXCEPT !.n = seconds]

\* A loop in signFiles that stops at the first file that was not signed.
AfterTrySignStopsOnFailure(ret) ==
    IF entry \in {"trySign", "trySign_calls", "trySign_reconfig"} THEN "done"
    ELSE IF ret THEN "getFiles" ELSE "signFiles_return"

\* A loop in signFiles that calls trySign again on a file that was not signed.
AfterTrySignRetriesFile(ret) ==
    IF entry \in {"trySign", "trySign_calls", "trySign_reconfig"} THEN "done"
    ELSE IF ret THEN "getFiles" ELSE "trySign"

\* A signFiles that throws when a file could not be signed.
AfterTrySignThrowsOnFailure(ret) ==
    IF ~ret THEN "throw"
    ELSE IF entry \in {"trySign", "trySign_calls", "trySign_reconfig"} THEN "done" ELSE "getFiles"

\* Where control goes when trySign returns: back into the for-await loop of
\* signFiles, or to the caller of trySign.
AfterTrySign(ret) == IF entry \in {"trySign", "trySign_calls", "trySign_reconfig"} THEN "done" ELSE "getFiles"

\* The test of getFiles used in the retry loop.
SupportedOrPackage(ext) == Includes(supportedFileExt, ext) \/ ext = <<".", "nupkg">>

\* A loop that signs whatever the extension.
SupportedAnything(ext) == TRUE

\* The extension test of the retry loop.
Supported(ext) == Includes(supportedFileExt, ext)

\* A verification that is started whatever the signing command returned.
AfterSignAlwaysVerifies(ok) == "verify"

\* What follows the signing command inside the try block: the verification
\* when it succeeded, the catch block when it was rejected.
AfterSign(ok) == IF ok THEN "verify" ELSE "catch"

\* A try block without its return: a verified file is signed again.
AfterVerifyNeverReturns(ok) == "catch"

\* A verification whose rejection is dropped.
AfterVerifyIgnoresFailure(ok) == "return"

\* What follows the verification command, which is awaited inside the same try
\* block: return true when it succeeded, the catch block when it was rejected.
AfterVerify(ok) == IF ok THEN "return" ELSE "catch"

\* A getSigntoolPath that does not take the fallback path for a result and
\* searches again.
NeedsDiscoveryAfterFallback(cached) == cached = Null \/ cached = fallbackPath

\* A getSigntoolPath that searches again at every call.
NeedsDiscoveryAlways(cached) == TRUE

\* getSigntoolPath: findSigntool is called only when nothing is cached.
NeedsDiscovery(cached) == cached = Null

\* The start of trySign: extname, the inputs, then getSigntoolPath, which
\* calls findSigntool only when nothing is cached.
TrySignStart ==
    /\ pc = "trySign"
    /\ call' = [call EXCEPT !.ext = ExtName(call.file),
                            !.timestampServer = inputs.timestampServer,
                            !.sha1 = inputs.sha1,
                            !.certDesc = inputs.certDesc,
                            !.signtool = signtoolPath,
                            !.version = signtoolVersion]
    /\ log' = Append(log, Info("trySign", call.file))
    /\ i' = 0
    /\ pc' = IF NeedsDiscovery(signtoolPath) THEN "findSigntool" ELSE "trySign_loop"
    /\ UNCHANGED <<entry, inputs, tree, sdk, stage, signtoolPath, signtoolVersion,
                   versionDirs, vi, located, stack, inflight, results, raised, faults>>

\* getSigntoolPath after findSigntool returned: cache the result, hand it to trySign.
GetSigntoolPathReturn ==
    /\ pc = "findSigntool_return"
    /\ entry # "findSigntool"
    /\ signtoolPath' = located.path
    /\ signtoolVersion' = located.version
    /\ call' = [call EXCEPT !.signtool = located.path, !.version = located.version]
    /\ pc' = "trySign_loop"
    /\ UNCHANGED <<entry, inputs, tree, sdk, stage, versionDirs, vi, located, i, stack,
                   inflight, log, results, raised, faults>>

\* One iteration up to the first await inside it: wait(i), then for a supported
\* extension the signing command is started.
TrySignAttempt ==
    /\ pc = "trySign_loop"
    /\ i < MaxAttempts
    /\ log' = Append(log, Wait(i))
    /\ IF Supported(call.ext)
       THEN /\ inflight' = Append(inflight, Ev("sign", call.signtool, signArgs(call), TRUE))
            /\ pc' = "signing"
            /\ UNCHANGED i
       ELSE /\ i' = i + 1
            /\ UNCHANGED <<inflight, pc>>
    /\ UNCHANGED <<entry, inputs, tree, sdk, stage, signtoolPath, signtoolVersion,
                   versionDirs, vi, located, call, stack, results, raised, faults>>

\* The signing command returns: on success the verification command is
\* started, on failure the catch block logs and the loop goes on.
SignReturn ==
    /\ pc = "signing"
    /\ \E ok \in Outcomes :
          LET next == AfterSign(ok)
          IN /\ log' = log \o <<[inflight[1] EXCEPT !.ok = ok]>>
                           \o (IF next = "catch" THEN <<LogError("stderr")>> ELSE <<>>)
             /\ inflight' = IF next = "verify"
                            THEN Append(Awaited(inflight),
                                        Ev("verify", call.signtool, verifyArgs(call), TRUE))
                            ELSE Awaited(inflight)
             /\ faults' = IF ok THEN faults ELSE faults + 1
             /\ i' = IF next = "catch" THEN i + 1 ELSE i
             /\ pc' = IF next = "verify" THEN "verifying" ELSE "trySign_loop"
    /\ UNCHANGED <<entry, inputs, tree, sdk, stage, signtoolPath, signtoolVersion,
                   versionDirs, vi, located, call, stack, results, raised>>

\* The verification command returns: on success trySign returns true, on
\* failure the same catch block logs and the loop goes on.
VerifyReturn ==
    /\ pc = "verifying"
    /\ \E ok \in Outcomes :
          LET next == AfterVerify(ok)
          IN /\ log' = log \o <<[inflight[1] EXCEPT !.ok = ok]>>
                           \o (IF next = "catch" THEN <<LogError("stderr")>> ELSE <<>>)
             /\ inflight' = Awaited(inflight)
             /\ faults' = IF ok THEN faults ELSE faults + 1
             /\ i' = IF next = "catch" THEN i + 1 ELSE i
             /\ results' = IF next = "return"
                           THEN Append(results, [file |-> call.file, ret |-> TRUE])
                           ELSE results
             /\ pc' = IF next = "return" THEN AfterTrySign(TRUE) ELSE "trySign_loop"
    /\ UNCHANGED <<entry, inputs, tree, sdk, stage, signtoolPath, signtoolVersion,
                   versionDirs, vi, located, call, stack, raised>>

\* The loop ran out: return false.
TrySignExhausted ==
    /\ pc = "trySign_loop"
    /\ i >= MaxAttempts
    /\ results' = Append(results, [file |-> call.file, ret |-> FALSE])
    /\ pc' = AfterTrySign(FALSE)
    /\ UNCHANGED <<entry, inputs, tree, sdk, stage, signtoolPath, signtoolVersion,
                   versionDirs, vi, located, call, i, stack, inflight, log, raised, faults>>

\* The inputs after a change of the configuration: another timestamp server,
\* another thumbprint, or no description.
ChangedInputs ==
    {[ValidInputs EXCEPT !.timestampServer = Str("http://other")],
     [ValidInputs EXCEPT !.sha1 = Str("sha1-other")],
     [ValidInputs EXCEPT !.certDesc = EmptyStr]}

\* The environment changes an input while trySign waits before an attempt.
setInputs ==
    /\ entry = "trySign_reconfig"
    /\ pc = "trySign_loop"
    /\ inputs = ValidInputs
    /\ inputs' \in ChangedInputs
    /\ log' = Append(log, Info("setInputs", EmptyStr))
    /\ UNCHANGED <<entry, tree, sdk, pc, stage, signtoolPath, signtoolVersion, versionDirs, vi,
                   located, call, i, stack, inflight, results, raised, faults>>

\* The hook is called while trySign waits before an attempt: the cached path
\* is replaced.
setSigntoolPath ==
    /\ entry = "trySign_reconfig"
    /\ pc = "trySign_loop"
    /\ signtoolPath # OtherPath
    /\ signtoolPath' = OtherPath
    /\ log' = Append(log, Info("setSigntoolPath", OtherPath))
    /\ UNCHANGED <<entry, inputs, tree, sdk, pc, stage, signtoolVersion, versionDirs, vi,
                   located, call, i, stack, inflight, results, raised, faults>>

\* The caller of trySign calls it once more, on the same file.
TrySignAgain ==
    /\ pc = "done"
    /\ entry = "trySign_calls"
    /\ Len(results) < MaxCalls
    /\ call' = [NoCall EXCEPT !.file = call.file]
    /\ pc' = "trySign"
    /\ UNCHANGED <<entry, inputs, tree, sdk, stage, signtoolPath, signtoolVersion,
                   versionDirs, vi, located, i, stack, inflight, log, results, raised, faults>>

\* The reset hook, called between two calls of trySign: the cached location
\* is cleared.
resetSigntoolCache ==
    /\ pc = "done"
    /\ entry = "trySign_calls"
    /\ signtoolPath # Null
    /\ signtoolPath' = Null
    /\ signtoolVersion' = Null
    /\ log' = Append(log, Info("reset", EmptyStr))
    /\ UNCHANGED <<entry, inputs, tree, sdk, pc, stage, versionDirs, vi, located, call, i,
                   stack, inflight, results, raised, faults>>

\* ---------------------------------------------- getFiles, signFiles

\* A generator that descends whatever the flag says.
FrameAlwaysRecursive(folder, recursive) ==
    [folder |-> folder, recursive |-> TRUE, listed |-> FALSE, files |-> <<>>, idx |-> 1]

\* One activation of getFiles: its arguments, the listing once read and the
\* position of the loop in it.
Frame(folder, recursive) ==
    [folder |-> folder, recursive |-> recursive, listed |-> FALSE, files |-> <<>>, idx |-> 1]

Top == stack[Len(stack)]

SetTop(f) == [stack EXCEPT ![Len(stack)] = f]

IsDirectory(p) == p \in DOMAIN tree.dirs

\* An enumerator that takes every entry for a regular file.
IsFileAnyEntry(p) == TRUE

\* stat.isFile()
IsFile(p) == ~IsDirectory(p) /\ p \notin tree.others

\* A test that leaves the package extension out.
YieldsSupportedOnly(file) == Supported(ExtName(file))

\* The test of getFiles on a regular file.
Yields(file) == Supported(ExtName(file)) \/ ExtName(file) = <<".", "nupkg">>

\* A stat whose rejection is dropped: the entry is handled as if stat returned.
AfterStatIgnoresFailure(ok) == "classify"

\* getFiles after stat: a rejected stat is thrown, nothing catches it in
\* getFiles nor in signFiles.
AfterStat(ok) == IF ok THEN "classify" ELSE "throw"

\* An enumerator that goes on to the next entry when it has found a file,
\* as one that collects the paths would.
AfterYieldCollects(file) == "getFiles"

\* yield fullPath: the generator is suspended and the body of the for-await
\* loop of signFiles runs, which calls trySign on the path.
AfterYield(file) == "trySign"

\* signFiles: read folder and recursive, create the generator.
signFiles ==
    /\ pc = "signFiles"
    /\ stack' = <<Frame(inputs.folder, inputs.recursive = Str("true"))>>
    /\ pc' = "getFiles"
    /\ UNCHANGED <<entry, inputs, tree, sdk, stage, signtoolPath, signtoolVersion,
                   versionDirs, vi, located, call, i, inflight, log, results, raised, faults>>

\* getFiles, first statement of a frame: readdir(folder). A rejected readdir
\* is thrown out of the generator and out of signFiles.
GetFilesReaddir ==
    /\ pc = "getFiles"
    /\ stack # <<>>
    /\ ~Top.listed
    /\ \E ok \in (IF IsDirectory(Top.folder) THEN BOOLEAN ELSE {FALSE}) :
          /\ log' = Append(log, Ev("readdir", Top.folder, <<>>, ok))
          /\ IF ok
             THEN /\ stack' = SetTop([Top EXCEPT !.listed = TRUE, !.files = tree.dirs[Top.folder]])
                  /\ UNCHANGED pc
             ELSE /\ stack' = <<>>
                  /\ pc' = "throw"
    /\ UNCHANGED <<entry, inputs, tree, sdk, stage, signtoolPath, signtoolVersion,
                   versionDirs, vi, located, call, i, inflight, results, raised, faults>>

\* getFiles, one iteration of the loop over files: stat the entry, then yield
\* a matching regular file (trySign is called on it), descend into a directory
\* when recursive, or go on. A rejected stat is thrown out of the generator.
GetFilesStat ==
    /\ pc = "getFiles"
    /\ stack # <<>>
    /\ Top.listed
    /\ Top.idx <= Len(Top.files)
    /\ LET fullPath == FullPath(Top.folder, Top.files[Top.idx])
           advanced == SetTop([Top EXCEPT !.idx = Top.idx + 1])
       IN \E ok \in BOOLEAN :
             /\ log' = Append(log, Ev("stat", fullPath, <<>>, ok))
             /\ IF AfterStat(ok) = "throw"
                THEN /\ stack' = <<>>
                     /\ pc' = "throw"
                     /\ UNCHANGED call
                ELSE IF IsFile(fullPath)
                THEN /\ stack' = advanced
                     /\ IF Yields(Top.files[Top.idx])
                        THEN /\ call' = [NoCall EXCEPT !.file = fullPath]
                             /\ pc' = AfterYield(fullPath)
                        ELSE UNCHANGED <<call, pc>>
                ELSE IF IsDirectory(fullPath) /\ Top.recursive
                THEN /\ stack' = Append(advanced, Frame(fullPath, Top.recursive))
                     /\ UNCHANGED <<call, pc>>
                ELSE /\ stack' = advanced
                     /\ UNCHANGED <<call, pc>>
    /\ UNCHANGED <<entry, inputs, tree, sdk, stage, signtoolPath, signtoolVersion,
                   versionDirs, vi, located, i, inflight, results, raised, faults>>

\* getFiles, end of the loop of a frame: the generator of a subdirectory hands
\* back to the one that delegated to it, the outermost one ends the for-await
\* loop of signFiles.
GetFilesReturn ==
    /\ pc = "getFiles"
    /\ stack # <<>>
    /\ Top.listed
    /\ Top.idx > Len(Top.files)
    /\ stack' = SubSeq(stack, 1, Len(stack) - 1)
    /\ pc' = IF Len(stack) = 1 THEN "signFiles_return" ELSE "getFiles"
    /\ UNCHANGED <<entry, inputs, tree, sdk, stage, signtoolPath, signtoolVersion,
                   versionDirs, vi, located, call, i, inflight, log, results, raised, faults>>

SignFilesReturn ==
    /\ pc = "signFiles_return"
    /\ pc' = IF entry = "run" THEN "run_return" ELSE "done"
    /\ UNCHANGED <<entry, inputs, tree, sdk, stage, signtoolPath, signtoolVersion,
                   versionDirs, vi, located, call, i, stack, inflight, log, results, raised, faults>>

\* The listings of the target folder made so far: one for each call of getFiles.
RootListings == {k \in 1..Len(log) : log[k].op = "readdir" /\ log[k].target = inputs.folder}

\* The caller of signFiles calls it once more after it returned: a new
\* generator is created.
SignFilesAgain ==
    /\ pc = "done"
    /\ entry = "signFiles_calls"
    /\ ~raised
    /\ Cardinality(RootListings) < MaxWalks
    /\ pc' = "signFiles"
    /\ UNCHANGED <<entry, inputs, tree, sdk, stage, signtoolPath, signtoolVersion,
                   versionDirs, vi, located, call, i, stack, inflight, log, results, raised, faults>>

\* ------------------------------------------------------------- run

\* A validation that goes through all four inputs and logs every empty one.
validateInputsReportsAll(in) ==
    (IF Len(in.folder) = 0 THEN <<LogError("folder input must have a value.")>> ELSE <<>>)
    \o (IF Len(in.certificate) = 0 THEN <<LogError("certificate input must have a value.")>> ELSE <<>>)
    \o (IF Len(in.password) = 0 THEN <<LogError("cert-password input must have a value.")>> ELSE <<>>)
    \o (IF Len(in.sha1) = 0 THEN <<LogError("cert-sha1 input must have a value.")>> ELSE <<>>)

\* A validation that forgets the thumbprint.
validateInputsWithoutSha1(in) ==
    IF Len(in.folder) = 0 THEN <<LogError("folder input must have a value.")>>
    ELSE IF Len(in.certificate) = 0 THEN <<LogError("certificate input must have a value.")>>
    ELSE IF Len(in.password) = 0 THEN <<LogError("cert-password input must have a value.")>>
    ELSE <<>>

\* validateInputs: the first empty input, in the order of the tests, is logged.
validateInputs(in) ==
    IF Len(in.folder) = 0 THEN <<LogError("folder input must have a value.")>>
    ELSE IF Len(in.certificate) = 0 THEN <<LogError("certificate input must have a value.")>>
    ELSE IF Len(in.password) = 0 THEN <<LogError("cert-password input must have a value.")>>
    ELSE IF Len(in.sha1) = 0 THEN <<LogError("cert-sha1 input must have a value.")>>
    ELSE <<>>

\* A try block that signFiles has left, as when it is not awaited.
TryCoversUpToImport(st) == st \in {"validateInputs", "createCert", "addCertToStore"}

\* The statements of run() that its try block holds.
TryCovers(st) == st \in {"validateInputs", "createCert", "addCertToStore", "signFiles"}

\* A createCert that swallows the rejected write and returns true.
AfterWriteFileSwallowed(ok) == "addCertToStore"

\* createCert after writeFile: a rejected write is thrown, nothing catches it
\* in createCert.
AfterWriteFile(ok) == IF ok THEN "addCertToStore" ELSE "throw"

\* A run() that returns when the validation fails.
AfterValidateHalts(ok) == IF ok THEN "createCert" ELSE "run_return"

\* run() after validateInputs(): its result is dropped.
AfterValidate(ok) == "createCert"

\* run(): validateInputs(), whose result is dropped.
RunValidate ==
    /\ pc = "run"
    /\ stage' = IF AfterValidate(validateInputs(inputs) = <<>>) = "createCert"
                THEN "createCert"
                ELSE "validateInputs"
    /\ log' = log \o <<Ev("validateInputs", EmptyStr, <<>>, validateInputs(inputs) = <<>>)>>
                  \o validateInputs(inputs)
    /\ pc' = AfterValidate(validateInputs(inputs) = <<>>)
    /\ UNCHANGED <<entry, inputs, tree, sdk, signtoolPath, signtoolVersion, versionDirs, vi,
                   located, call, i, stack, inflight, results, raised, faults>>

\* validateInputs called on its own: what it logs, and its result.
ValidateInputsReturn ==
    /\ pc = "validateInputs"
    /\ log' = log \o <<Ev("validateInputs", EmptyStr, <<>>, validateInputs(inputs) = <<>>)>>
                  \o validateInputs(inputs)
    /\ pc' = "done"
    /\ UNCHANGED <<entry, inputs, tree, sdk, stage, signtoolPath, signtoolVersion, versionDirs,
                   vi, located, call, i, stack, inflight, results, raised, faults>>

\* createCert: decode, writeFile(certPath, cert), return true.
createCert ==
    /\ pc = "createCert"
    /\ \E ok \in BOOLEAN :
          /\ log' = Append(log, Ev("writeFile", certPath, <<inputs.certificate>>, ok))
          /\ pc' = AfterWriteFile(ok)
          /\ stage' = IF AfterWriteFile(ok) = "addCertToStore" THEN "addCertToStore" ELSE stage
    /\ UNCHANGED <<entry, inputs, tree, sdk, signtoolPath, signtoolVersion, versionDirs, vi,
                   located, call, i, stack, inflight, results, raised, faults>>

\* addCertToStore up to its await: the certutil command is started.
addCertToStore ==
    /\ pc = "addCertToStore"
    /\ inflight' = Append(inflight,
                          Ev("certutil", Str("certutil"),
                             <<Str("-f"), Str("-p"), inputs.password, Str("-importpfx"), certPath>>,
                             TRUE))
    /\ pc' = "importing"
    /\ UNCHANGED <<entry, inputs, tree, sdk, stage, signtoolPath, signtoolVersion,
                   versionDirs, vi, located, call, i, stack, log, results, raised, faults>>

\* A catch block that throws the error on after logging it.
AfterImportRethrows(ok) == IF ok THEN "true" ELSE "throw"

\* A catch block that logs and returns true all the same.
AfterImportAlwaysTrue(ok) == "true"

\* addCertToStore after certutil: return true, or the catch block, which
\* returns false.
AfterImport(ok) == IF ok THEN "true" ELSE "false"

\* The value a function returned, as its caller sees it.
Returned(fn, value) == Ev("return", Str(fn), <<>>, value)

\* certutil returns: addCertToStore returns true, or logs stdout and stderr
\* and returns false; run() calls signFiles only after true.
AddCertToStoreReturn ==
    /\ pc = "importing"
    /\ inflight' = Awaited(inflight)
    /\ \E ok \in BOOLEAN :
          LET ret == AfterImport(ok)
          IN /\ log' = log \o <<[inflight[1] EXCEPT !.ok = ok]>>
                           \o (IF ok THEN <<>> ELSE <<LogError("stdout"), LogError("stderr")>>)
                           \o (IF ret = "throw" THEN <<>>
                               ELSE <<Returned("addCertToStore", ret = "true")>>)
             /\ pc' = IF ret = "throw" THEN "throw"
                      ELSE IF entry = "addCertToStore" THEN "done"
                      ELSE IF ret = "true" THEN "signFiles"
                      ELSE "run_return"
             /\ stage' = IF entry = "run" /\ ret = "true" THEN "signFiles" ELSE stage
    /\ UNCHANGED <<entry, inputs, tree, sdk, signtoolPath, signtoolVersion, versionDirs, vi,
                   located, call, i, stack, results, raised, faults>>

\* An error thrown inside the try block of run(): setFailed, once.
RunCatch ==
    /\ pc = "throw"
    /\ entry = "run"
    /\ TryCovers(stage)
    /\ log' = Append(log, Ev("setFailed", Str("code Signing failed"), <<>>, TRUE))
    /\ pc' = "run_return"
    /\ UNCHANGED <<entry, inputs, tree, sdk, stage, signtoolPath, signtoolVersion,
                   versionDirs, vi, located, call, i, stack, inflight, results, raised, faults>>

\* An error thrown where no try block holds it leaves the called function.
Escape ==
    /\ pc = "throw"
    /\ ~(entry = "run" /\ TryCovers(stage))
    /\ raised' = TRUE
    /\ pc' = "done"
    /\ UNCHANGED <<entry, inputs, tree, sdk, stage, signtoolPath, signtoolVersion,
                   versionDirs, vi, located, call, i, stack, inflight, log, results, faults>>

RunReturn ==
    /\ pc = "run_return"
    /\ pc' = "done"
    /\ UNCHANGED <<entry, inputs, tree, sdk, stage, signtoolPath, signtoolVersion,
                   versionDirs, vi, located, call, i, stack, inflight, log, results, raised, faults>>

\* ------------------------------------------------------------ Init

NoTool == [path |-> Null, version |-> Null]

Fresh ==
    /\ stage = "none"
    /\ versionDirs = <<>>
    /\ vi = 0
    /\ located = NoTool
    /\ i = 0
    /\ stack = <<>>
    /\ inflight = <<>>
    /\ log = <<>>
    /\ results = <<>>
    /\ raised = FALSE
    /\ faults = 0

\* The tool is either still to be discovered or was injected through the hook.
ToDiscover(env) == /\ signtoolPath = Null /\ signtoolVersion = Null /\ sdk = env

Injected(versions) ==
    /\ signtoolPath = MockedPath
    /\ signtoolVersion \in versions
    /\ sdk = SdkUnreadable

RunInputs ==
    {[ValidInputs EXCEPT !.recursive = r] : r \in {Str("true"), Str("false")}}

\* Inputs that validateInputs rejects.
RunInputsMissing ==
    {[ValidInputs EXCEPT !.recursive = Str("false"), !.sha1 = EmptyStr],
     [ValidInputs EXCEPT !.folder = EmptyStr],
     [ValidInputs EXCEPT !.recursive = Str("false"), !.certificate = EmptyStr,
                         !.password = EmptyStr]}

InitRun ==
    /\ entry = "run"
    /\ pc = "run"
    /\ call = NoCall
    /\ \/ /\ inputs \in RunInputs
          /\ tree \in Trees
          /\ Injected({V(10, 0, 17763, 0)})
       \/ /\ inputs = [ValidInputs EXCEPT !.recursive = Str("false")]
          /\ tree \in Trees
          /\ ToDiscover(SdkSmall)
       \/ /\ inputs \in RunInputsMissing
          /\ tree = TreeTest
          /\ Injected({V(10, 0, 17763, 0)})
    /\ Fresh

InitSignFiles ==
    /\ entry = "signFiles"
    /\ pc = "signFiles"
    /\ inputs \in {[ValidInputs EXCEPT !.recursive = r] : r \in {Str("true"), Str("false")}}
    /\ tree \in Trees
    /\ call = NoCall
    /\ Injected({V(10, 0, 26100, 0)})
    /\ Fresh

TrySignFiles ==
    {<<"C:", "/", "test", "/", "file", ".", "dll">>, <<"notes", ".", "txt">>,
     <<"pkg", ".", "nupkg">>, <<"folder", "/", ".", "ps1">>, <<"a", ".", "b", "/", "README">>}

InitTrySign ==
    /\ entry = "trySign"
    /\ pc = "trySign"
    /\ inputs \in {[ValidInputs EXCEPT !.certDesc = d] : d \in {Str("Desc"), EmptyStr}}
    /\ tree = TreeEmpty
    /\ call \in {[NoCall EXCEPT !.file = f] : f \in TrySignFiles}
    /\ \/ ToDiscover(SdkSmall)
       \/ ToDiscover(SdkUnreadable)
       \/ Injected(InjectedVersions)
    /\ Fresh

\* Every choice of empty and non-empty for the four inputs validateInputs reads.
ValidateInputSets ==
    {[ValidInputs EXCEPT !.folder = f, !.certificate = c, !.password = p, !.sha1 = h] :
        f \in {Str("folder"), EmptyStr}, c \in {Str("dGVzdA=="), EmptyStr},
        p \in {Str("pw"), EmptyStr}, h \in {Str("sha1"), EmptyStr}}

InitValidateInputs ==
    /\ entry = "validateInputs"
    /\ pc = "validateInputs"
    /\ inputs \in ValidateInputSets
    /\ tree = TreeEmpty
    /\ call = NoCall
    /\ ToDiscover(SdkUnreadable)
    /\ Fresh

InitAddCertToStore ==
    /\ entry = "addCertToStore"
    /\ pc = "addCertToStore"
    /\ inputs \in {ValidInputs, [ValidInputs EXCEPT !.password = EmptyStr]}
    /\ tree = TreeEmpty
    /\ call = NoCall
    /\ ToDiscover(SdkUnreadable)
    /\ Fresh

\* trySign called several times in one process, the cache cleared or not
\* between two calls.
InitTrySignCalls ==
    /\ entry = "trySign_calls"
    /\ pc = "trySign"
    /\ inputs = ValidInputs
    /\ tree = TreeEmpty
    /\ call \in {[NoCall EXCEPT !.file = f] :
                    f \in {<<"C:", "/", "test", "/", "file", ".", "dll">>, <<"notes", ".", "txt">>}}
    /\ \/ ToDiscover(SdkSmall)
       \/ ToDiscover(SdkUnreadable)
       \/ Injected({V(10, 0, 17763, 0)})
    /\ Fresh

\* trySign called while the configuration changes under it.
InitTrySignReconfig ==
    /\ entry = "trySign_reconfig"
    /\ pc = "trySign"
    /\ inputs = ValidInputs
    /\ tree = TreeEmpty
    /\ call = [NoCall EXCEPT !.file = <<"C:", "/", "test", "/", "file", ".", "dll">>]
    /\ \/ ToDiscover(SdkSmall)
       \/ Injected({V(10, 0, 17763, 0)})
    /\ Fresh

\* signFiles called several times in one process.
InitSignFilesCalls ==
    /\ entry = "signFiles_calls"
    /\ pc = "signFiles"
    /\ inputs \in {[ValidInputs EXCEPT !.recursive = r] : r \in {Str("true"), Str("false")}}
    /\ tree = TreeTest
    /\ call = NoCall
    /\ Injected({V(10, 0, 17763, 0)})
    /\ Fresh

InitFindSigntool ==
    /\ entry = "findSigntool"
    /\ pc = "findSigntool"
    /\ inputs = ValidInputs
    /\ tree = TreeEmpty
    /\ call = NoCall
    /\ signtoolPath = Null
    /\ signtoolVersion = Null
    /\ sdk \in SdkEnvs \cup {SdkUnreadable}
    /\ Fresh

Init ==
    \/ InitRun
    \/ InitSignFiles
    \/ InitTrySign
    \/ InitTrySignCalls
    \/ InitSignFilesCalls
    \/ InitTrySignReconfig
    \/ InitFindSigntool
    \/ InitValidateInputs
    \/ InitAddCertToStore

\* ------------------------------------------------------------ Next

Next ==
    \/ ValidateInputsReturn
    \/ RunValidate
    \/ createCert
    \/ addCertToStore
    \/ AddCertToStoreReturn
    \/ signFiles
    \/ GetFilesReaddir
    \/ GetFilesStat
    \/ GetFilesReturn
    \/ SignFilesReturn
    \/ SignFilesAgain
    \/ TrySignStart
    \/ FindSigntoolList
    \/ FindSigntoolProbe
    \/ FindSigntoolReturn
    \/ GetSigntoolPathReturn
    \/ TrySignAttempt
    \/ SignReturn
    \/ VerifyReturn
    \/ TrySignExhausted
    \/ TrySignAgain
    \/ resetSigntoolCache
    \/ setInputs
    \/ setSigntoolPath
    \/ RunCatch
    \/ Escape
    \/ RunReturn

Spec == Init /\ [][Next]_vars

\* run() alone, where the single flow of control always takes its next step:
\* a command that was started returns, a timer fires, a file-system call
\* settles.
RunNext ==
    \/ RunValidate
    \/ createCert
    \/ addCertToStore
    \/ AddCertToStoreReturn
    \/ signFiles
    \/ GetFilesReaddir
    \/ GetFilesStat
    \/ GetFilesReturn
    \/ SignFilesReturn
    \/ TrySignStart
    \/ FindSigntoolList
    \/ FindSigntoolProbe
    \/ GetSigntoolPathReturn
    \/ TrySignAttempt
    \/ SignReturn
    \/ VerifyReturn
    \/ TrySignExhausted
    \/ RunCatch
    \/ RunReturn

LiveSpec == InitRun /\ [][RunNext]_vars /\ WF_vars(RunNext)

\* ------------------------------------------- reading the log, for the claims

\* Positions of the log where a trySign call starts.
Marks == {k \in 1..Len(log) : log[k].op = "trySign"}

\* A trySign call is being executed.
InCall ==
    pc \in {"trySign", "findSigntool", "findSigntool_probe", "findSigntool_return",
            "trySign_loop", "signing", "verifying"}

IsCommand(e) == e.op \in {"certutil", "sign", "verify"}

\* The external commands of the latest trySign call that have returned, in order.
LastCommands == SelectSeq(SubSeq(log, Max(Marks) + 1, Len(log)), IsCommand)

IsSign(e) == e.op = "sign"

IsVerify(e) == e.op = "verify"

\* The latest trySign call has returned: every call passes through such a state.
LastReturned == ~InCall /\ results # <<>> /\ Marks # {}

LastResult == results[Len(results)]

InSupportedSet(file) == ExtName(file) \in Range(supportedFileExt)

RunDone == entry = "run" /\ pc = "done"

\* ------------------------------------------------------------ claims

\* C1: for a file with a supported extension, if every signing invocation
\* fails, trySign makes exactly 5 signing invocations, no verification
\* invocation, and returns false.
C1_AllFailFiveAttempts ==
    LastReturned =>
        LET signs == SelectSeq(LastCommands, IsSign)
        IN (InSupportedSet(LastResult.file) /\ \A k \in 1..Len(signs) : ~signs[k].ok)
           => /\ Len(signs) = 5
              /\ SelectSeq(LastCommands, IsVerify) = <<>>
              /\ LastResult.ret = FALSE

C1_Witness ==
    /\ LastReturned
    /\ InSupportedSet(LastResult.file)
    /\ Len(SelectSeq(LastCommands, IsSign)) = 5
    /\ \A k \in 1..Len(LastCommands) : ~LastCommands[k].ok
    /\ LastResult.ret = FALSE

\* The first command of the call was a signing invocation that succeeded.
FirstSignOk(cmds) == cmds # <<>> /\ cmds[1].op = "sign" /\ cmds[1].ok

OneSignOneVerify(cmds) ==
    /\ Len(cmds) = 2
    /\ cmds[1].op = "sign"
    /\ cmds[2].op = "verify"
    /\ LastResult.ret = TRUE

\* C2 as stated: whenever the first signing invocation succeeds, trySign
\* issues exactly one signing command followed by exactly one verification
\* command, no other command, and returns true.
C2_Original ==
    LastReturned => (FirstSignOk(LastCommands) => OneSignOneVerify(LastCommands))

\* C2 amended: whenever the first signing invocation and the verification that
\* follows it succeed, trySign issues exactly one signing command followed by
\* exactly one verification command, no other command, and returns true.
C2_FirstAttemptSucceeds ==
    LastReturned =>
        LET cmds == LastCommands
        IN (FirstSignOk(cmds) /\ Len(cmds) >= 2 /\ cmds[2].op = "verify" /\ cmds[2].ok)
           => OneSignOneVerify(cmds)

C2_Witness ==
    /\ LastReturned
    /\ FirstSignOk(LastCommands)
    /\ LastCommands[2].ok
    /\ OneSignOneVerify(LastCommands)

\* Positions of the commands that are a rejected verification.
FailedVerifies(cmds) == {k \in 1..Len(cmds) : cmds[k].op = "verify" /\ ~cmds[k].ok}

\* C3 as stated: a successful signing invocation followed by a failing
\* verification is treated as success: trySign returns true and no further
\* signing invocation is made for the file.
C3_Original ==
    LastReturned =>
        LET cmds == LastCommands
        IN \A k \in FailedVerifies(cmds) : LastResult.ret = TRUE /\ k = Len(cmds)

\* C3 amended: a successful signing invocation followed by a failing
\* verification is a failed attempt: while attempts remain the file is signed
\* again, a failing verification in the fifth attempt makes trySign return
\* false, and trySign returns true only when its last verification succeeded.
C3_VerifyFailureRetries ==
    LastReturned =>
        LET cmds == LastCommands
        IN /\ \A k \in FailedVerifies(cmds) :
                 \/ k < Len(cmds) /\ cmds[k + 1].op = "sign"
                 \/ /\ k = Len(cmds)
                    /\ Len(SelectSeq(cmds, IsSign)) = 5
                    /\ LastResult.ret = FALSE
           /\ LastResult.ret = TRUE =>
                 /\ cmds # <<>>
                 /\ cmds[Len(cmds)].op = "verify"
                 /\ cmds[Len(cmds)].ok

C3_Witness ==
    /\ LastReturned
    /\ \E k \in FailedVerifies(LastCommands) :
          /\ LastCommands[k - 1].op = "sign"
          /\ LastCommands[k - 1].ok
          /\ k < Len(LastCommands)
          /\ LastCommands[k + 1].op = "sign"

\* C4: trySign on a file whose extension is not in the supported set invokes
\* no external command, neither sign nor verify, and returns false.
C4_UnsupportedNoCommands ==
    (Marks # {} /\ ~InSupportedSet(log[Max(Marks)].target))
    => /\ LastCommands = <<>>
       /\ InCall => inflight = <<>>
       /\ LastReturned => LastResult.ret = FALSE

C4_Witness ==
    /\ LastReturned
    /\ LastResult.file = <<"notes", ".", "txt">>
    /\ LastResult.ret = FALSE
    /\ LastCommands = <<>>

ImportFailed == \E k \in 1..Len(log) : log[k].op = "certutil" /\ ~log[k].ok

\* C5: when the store-import command fails during run(), no signing command
\* is invoked and exactly one terminal failure is reported through setFailed.
C5_ImportFailureReported ==
    (RunDone /\ ImportFailed) => (CountOp(log, "sign") = 0 /\ CountOp(log, "setFailed") = 1)

WriteFailed == \E k \in 1..Len(log) : log[k].op = "writeFile" /\ ~log[k].ok

\* C6: when the write of the certificate file fails during run(), the import
\* command and the signing commands are never invoked and exactly one terminal
\* failure is reported.
C6_StagingFailure ==
    (entry = "run" /\ WriteFailed)
    => /\ inflight = <<>>
       /\ \A k \in 1..Len(log) : ~IsCommand(log[k])
       /\ CountOp(log, "setFailed") <= 1
       /\ pc = "done" => CountOp(log, "setFailed") = 1

C6_Witness == RunDone /\ WriteFailed /\ CountOp(log, "setFailed") = 1

\* C7: run() never raises past its own boundary, whatever fails, and reports
\* at most one terminal failure.
C7_RunNeverRaises == entry = "run" => (~raised /\ CountOp(log, "setFailed") <= 1)

C7_Witness ==
    /\ RunDone
    /\ CountOp(log, "setFailed") = 1
    /\ \E k \in 1..Len(log) : log[k].op = "sign" /\ ~log[k].ok
    /\ \E k \in 1..Len(log) : log[k].op = "stat" /\ ~log[k].ok

RECURSIVE Enumerate(_, _, _, _)
\* The files under folder that are to be signed, in listing order, entries
\* from position k of the listing on.
Enumerate(t, folder, recursive, k) ==
    IF k > Len(t.dirs[folder]) THEN <<>>
    ELSE LET p == folder \o <<"/">> \o t.dirs[folder][k]
             here == IF p \in DOMAIN t.dirs
                     THEN (IF recursive THEN Enumerate(t, p, recursive, 1) ELSE <<>>)
                     ELSE IF p \in t.others THEN <<>>
                     ELSE IF InSupportedSet(p) \/ ExtName(p) = <<".", "nupkg">> THEN <<p>>
                     ELSE <<>>
         IN here \o Enumerate(t, folder, recursive, k + 1)

\* signFiles returned without an error.
SignFilesCompleted ==
    /\ pc = "done"
    /\ entry \in {"run", "signFiles"}
    /\ entry = "run" => stage = "signFiles"
    /\ ~raised
    /\ CountOp(log, "setFailed") = 0

\* C8: a file whose signing is exhausted after 5 failed attempts does not stop
\* the pipeline: trySign is called on every remaining enumerated file.
C8_ExhaustionDoesNotAbort ==
    SignFilesCompleted
    => [n \in 1..Len(results) |-> results[n].file]
          = Enumerate(tree, inputs.folder, inputs.recursive = <<"true">>, 1)

\* The first file was given up after 5 rejected signing commands and another
\* file was tried after it.
C8_Witness ==
    /\ SignFilesCompleted
    /\ Len(results) >= 2
    /\ InSupportedSet(results[1].file)
    /\ results[1].ret = FALSE
    /\ \E k \in 1..Len(log) :
          /\ log[k].op = "trySign"
          /\ log[k].target = results[2].file
          /\ Cardinality({j \in 1..k : log[j].op = "sign" /\ ~log[j].ok}) = 5

HasFileDigest(args) ==
    \E k \in 1..(Len(args) - 1) : args[k] = <<"/fd">> /\ args[k + 1] = <<"sha1">>

\* v >= 10.0.26100.0 for the four numbers of a version.
AtLeast26100(p) ==
    \/ p[1] > 10
    \/ p[1] = 10 /\ p[2] > 0
    \/ p[1] = 10 /\ p[2] = 0 /\ p[3] > 26100
    \/ p[1] = 10 /\ p[2] = 0 /\ p[3] = 26100 /\ p[4] >= 0

NothingUsable ==
    \/ ~sdk.readable
    \/ \A k \in 1..Len(sdk.listing) :
          IsVersionDir(sdk.listing[k]) => sdk.listing[k] \notin sdk.present

\* C10: findSigntool never fails: when the listing errors, when no entry
\* matches the version pattern and when no matching version has its binary it
\* returns the fallback, path and version 10.0.17763.0, instead of raising.
C10_LocatorFallsBack ==
    /\ entry \in {"findSigntool", "trySign"} => (pc # "throw" /\ ~raised)
    /\ (pc = "findSigntool_return" /\ NothingUsable)
          => /\ located.path = ToolPathOf(V(10, 0, 17763, 0))
             /\ located.version = V(10, 0, 17763, 0)

C10_Witness ==
    /\ pc = "findSigntool_return"
    /\ sdk.readable
    /\ \E k \in 1..Len(sdk.listing) : IsVersionDir(sdk.listing[k])
    /\ NothingUsable
    /\ located.path = ToolPathOf(V(10, 0, 17763, 0))

\* p >= q for the four numbers of two versions, the first number weighing most.
NotLower(p, q) ==
    \/ p = q
    \/ \E k \in 1..4 : p[k] > q[k] /\ \A j \in 1..(k - 1) : p[j] = q[j]

\* The listed directories that match the version pattern and hold the binary.
Usable == {d \in Range(sdk.listing) : IsVersionDir(d) /\ d \in sdk.present}

\* C11: for any listing of the SDK directory and any subset of it whose binary
\* is present, findSigntool returns the greatest matching version, number by
\* number, among those whose binary is present, with the path of that binary.
C11_LocatorGreatestPresent ==
    (pc = "findSigntool_return" /\ sdk.readable /\ Usable # {})
    => /\ located.version \in Usable
       /\ located.path = ToolPathOf(located.version)
       /\ \A d \in Usable : NotLower(Parts(located.version), Parts(d))

\* 10.0.17763.0, 10.0.19041.0 and 10.0.22000.0 listed, only 10.0.17763.0
\* present: the two higher versions were probed and skipped.
C11_Witness ==
    /\ pc = "findSigntool_return"
    /\ Range(sdk.listing) = {V(10, 0, 17763, 0), V(10, 0, 19041, 0), V(10, 0, 22000, 0)}
    /\ sdk.present = {V(10, 0, 17763, 0)}
    /\ located.version = V(10, 0, 17763, 0)
    /\ vi = 3

IsTrySignMark(e) == e.op = "trySign"

\* The paths getFiles has yielded so far: signFiles hands each to trySign.
Yielded ==
    LET m == SelectSeq(log, IsTrySignMark) IN [k \in 1..Len(m) |-> m[k].target]

IsPrefix(s, t) == Len(s) <= Len(t) /\ SubSeq(t, 1, Len(s)) = s

\* The folder is being enumerated, or was.
Walks == entry \in {"run", "signFiles"} /\ inputs.folder \in DOMAIN tree.dirs

\* C12: recursive enumeration yields exactly the regular files whose extension
\* is in the supported set or is .nupkg, in pre-order following the listing
\* order; the tree {a.dll, b.txt, sub/{inner.exe}, pkg.nupkg} yields
\* [a.dll, sub/inner.exe, pkg.nupkg].
C12_RecursiveEnumeration ==
    (Walks /\ inputs.recursive = <<"true">>)
    => /\ IsPrefix(Yielded, Enumerate(tree, inputs.folder, TRUE, 1))
       /\ SignFilesCompleted => Yielded = Enumerate(tree, inputs.folder, TRUE, 1)
       /\ (SignFilesCompleted /\ tree = TreeTest)
             => Yielded = << <<"folder", "/", "a", ".", "dll">>,
                             <<"folder", "/", "sub", "/", "inner", ".", "exe">>,
                             <<"folder", "/", "pkg", ".", "nupkg">> >>

C12_Witness ==
    /\ SignFilesCompleted
    /\ tree = TreeTest
    /\ inputs.recursive = <<"true">>
    /\ Len(Yielded) = 3
    /\ Yielded[2] = <<"folder", "/", "sub", "/", "inner", ".", "exe">>
    /\ Yielded[3] = <<"folder", "/", "pkg", ".", "nupkg">>

\* C13 as stated: non-recursive enumeration of the tree {a.dll, b.txt,
\* sub/{inner.exe}, pkg.nupkg} yields only [a.dll].
C13_Original ==
    (SignFilesCompleted /\ tree = TreeTest /\ inputs.recursive # <<"true">>)
    => Yielded = << <<"folder", "/", "a", ".", "dll">> >>

\* C13 amended: non-recursive enumeration of that tree yields
\* [a.dll, pkg.nupkg]: sub is not descended into and inner.exe is absent; in
\* general it yields the matching regular files of the top folder only.
C13_NonRecursiveEnumeration ==
    (Walks /\ inputs.recursive # <<"true">>)
    => /\ \A k \in 1..Len(log) :
             log[k].op \in {"readdir", "stat"} /\ log[k].target # sdkBasePath
             => /\ log[k].op = "readdir" => log[k].target = inputs.folder
                /\ log[k].op = "stat" =>
                      \/ \E f \in Range(tree.dirs[inputs.folder]) :
                            log[k].target = FullPath(inputs.folder, f)
                      \/ log[k].target[1] = sdkBasePath[1]
       /\ IsPrefix(Yielded, Enumerate(tree, inputs.folder, FALSE, 1))
       /\ (SignFilesCompleted /\ tree = TreeTest)
             => Yielded = << <<"folder", "/", "a", ".", "dll">>,
                             <<"folder", "/", "pkg", ".", "nupkg">> >>

C13_Witness ==
    /\ SignFilesCompleted
    /\ tree = TreeTest
    /\ inputs.recursive = <<"false">>
    /\ Yielded = << <<"folder", "/", "a", ".", "dll">>, <<"folder", "/", "pkg", ".", "nupkg">> >>
    /\ \E k \in 1..Len(log) : log[k].op = "stat" /\ log[k].target = <<"folder", "/", "sub">>

IsSignOrVerify(e) == e.op \in {"sign", "verify"}

\* The file a signing or verification command is given: its last argument.
FileOf(e) == e.args[Len(e.args)]

\* C14: files are processed strictly sequentially: at most one external
\* command (import, sign or verify) is in flight at any time, none is in
\* flight while the next file is fetched, and every sign or verify command is
\* for the file of the latest trySign call, so the commands of one file have
\* all completed before a command of the next file starts.
C14_Sequential ==
    /\ Len(inflight) <= 1
    /\ ~(pc \in {"importing", "signing", "verifying"}) => inflight = <<>>
    /\ \A k \in 1..Len(inflight) :
          IsSignOrVerify(inflight[k])
          => Marks # {} /\ FileOf(inflight[k]) = log[Max(Marks)].target
    /\ \A k \in 1..Len(log) :
          IsSignOrVerify(log[k])
          => /\ \E m \in Marks : m < k
             /\ FileOf(log[k]) = log[Max({m \in Marks : m < k})].target

\* Two files were signed and verified one after the other, after the import.
C14_Witness ==
    /\ RunDone
    /\ \E j, k \in 1..Len(log) :
          /\ j < k
          /\ log[j].op = "verify"
          /\ log[k].op = "sign"
          /\ FileOf(log[j]) # FileOf(log[k])
    /\ log[3].op = "certutil"

\* The entry at position k of the log is a listing or a stat of the
\* enumeration (not of the SDK directory) that was rejected.
EnumFailureAt(k) ==
    /\ log[k].op \in {"readdir", "stat"}
    /\ ~log[k].ok
    /\ log[k].target = <<>> \/ log[k].target[1] # sdkBasePath[1]

\* C15: when listing a directory or stat-ing an entry fails during the
\* enumeration, the failure leaves the enumerator: nothing is listed, yielded
\* or signed after it, signFiles raises, and run() reports one terminal failure.
C15_EnumerationFailureAborts ==
    \A k \in 1..Len(log) :
        EnumFailureAt(k)
        => /\ \A j \in (k + 1)..Len(log) : log[j].op = "setFailed"
           /\ inflight = <<>>
           /\ stack = <<>>
           /\ pc \in {"throw", "run_return", "done"}
           /\ (entry = "run" /\ pc # "throw") => (CountOp(log, "setFailed") = 1 /\ ~raised)
           /\ (entry = "signFiles" /\ pc = "done") => raised

\* A file was signed, then the stat of a later entry, inside a subdirectory,
\* was rejected, and run() reported the failure.
C15_Witness ==
    /\ RunDone
    /\ CountOp(log, "setFailed") = 1
    /\ \E k \in 1..Len(log) :
          /\ EnumFailureAt(k)
          /\ log[k].op = "stat"
          /\ Len(log[k].target) > 5
          /\ \E j \in 1..k : log[j].op = "sign" /\ log[j].ok

RequiredInputs == {"folder", "certificate", "password", "sha1"}

\* The message that names a required input.
MissingMessage(f) ==
    CASE f = "folder" -> <<"folder input must have a value.">>
      [] f = "certificate" -> <<"certificate input must have a value.">>
      [] f = "password" -> <<"cert-password input must have a value.">>
      [] f = "sha1" -> <<"cert-sha1 input must have a value.">>

\* C16: validateInputs returns true if and only if folder, certificate,
\* cert-password and cert-sha1 are all non-empty; when it returns false it has
\* logged one error message, which names a missing field.
C16_ValidateInputs ==
    (log # <<>> /\ log[1].op = "validateInputs")
    => LET missing == {f \in RequiredInputs : inputs[f] = <<>>}
       IN /\ log[1].ok <=> missing = {}
          /\ log[1].ok => \A k \in 1..Len(log) : log[k].op = "error" => k > 2
          /\ ~log[1].ok
                => /\ Len(log) >= 2
                   /\ log[2].op = "error"
                   /\ \E f \in missing : log[2].target = MissingMessage(f)
                   /\ entry = "validateInputs" => Len(log) = 2

\* Only the password is missing: false, with the message that names it.
C16_Witness ==
    /\ entry = "validateInputs"
    /\ pc = "done"
    /\ {f \in RequiredInputs : inputs[f] = <<>>} = {"password"}
    /\ ~log[1].ok
    /\ log[2].target = <<"cert-password input must have a value.">>

\* C17: addCertToStore returns true when the import command succeeds; when
\* the command is rejected it logs the captured output and error streams and
\* returns false, without raising.
C17_AddCertToStore ==
    /\ \A k \in 1..Len(log) :
          log[k].op = "certutil"
          => IF log[k].ok
             THEN /\ Len(log) > k
                  /\ log[k + 1] = Returned("addCertToStore", TRUE)
             ELSE /\ Len(log) >= k + 3
                  /\ log[k + 1] = LogError("stdout")
                  /\ log[k + 2] = LogError("stderr")
                  /\ log[k + 3] = Returned("addCertToStore", FALSE)
    /\ entry = "addCertToStore" => (~raised /\ pc # "throw")

C17_Witness ==
    /\ entry = "addCertToStore"
    /\ pc = "done"
    /\ ~log[1].ok
    /\ log[4] = Returned("addCertToStore", FALSE)
    /\ ~raised

IsWait(e) == e.op = "wait"

\* What the latest trySign call has logged, and what was logged after it
\* returned and before the next call.
LastSegment == SubSeq(log, Max(Marks) + 1, Len(log))

\* C18: in the retry loop of trySign the wait before attempt number i
\* (i = 0..4) is exactly i: 0 before the first attempt, then 1, 2, 3, 4; each
\* signing command directly follows the wait of its attempt, a file that fails
\* all attempts has waited 10 in total and no sixth wait is made.
C18_LinearBackoff ==
    Marks # {}
    => LET seg == LastSegment
           waits == SelectSeq(seg, IsWait)
       IN /\ Len(waits) <= 5
          /\ \A k \in 1..Len(waits) : waits[k].n = k - 1
          /\ \A k \in 1..Len(seg) :
                seg[k].op = "sign"
                => /\ k > 1
                   /\ seg[k - 1].op = "wait"
                   /\ seg[k - 1].n = Cardinality({j \in 1..(k - 1) : seg[j].op = "sign"})
          /\ (LastReturned /\ ~LastResult.ret)
                => /\ Len(waits) = 5
                   /\ waits[1].n + waits[2].n + waits[3].n + waits[4].n + waits[5].n = 10
                   /\ InSupportedSet(LastResult.file)
                         => Len(SelectSeq(seg, IsSign)) = 5

C18_Witness ==
    /\ LastReturned
    /\ ~LastResult.ret
    /\ InSupportedSet(LastResult.file)
    /\ Len(SelectSeq(LastSegment, IsWait)) = 5
    /\ LastSegment[1] = Wait(0)
    /\ \E k \in 1..Len(LastSegment) : LastSegment[k] = Wait(4)

IsSdkListing(e) == e.op = "readdir" /\ e.target = sdkBasePath

IsSdkProbe(e) == e.op = "stat" /\ e.target # <<>> /\ e.target[1] = sdkBasePath[1]

Resets == {k \in 1..Len(log) : log[k].op = "reset"}

SdkListings == {k \in 1..Len(log) : IsSdkListing(log[k])}

\* The trySign call that starts at position m of the log is the first one of
\* the process, or the first one since the cache was last reset.
FirstSinceReset(m) ==
    LET r == Max({0} \cup {x \in Resets : x < m})
    IN {n \in Marks : r < n /\ n < m} = {}

\* C19: the location of the signing tool is computed at most once per run:
\* only the first trySign lists and probes the SDK directories, every later
\* trySign reuses the cached location, and after a reset of the cache the next
\* trySign computes it again.
C19_LocationCached ==
    entry \in {"run", "signFiles", "trySign", "trySign_calls"}
    => /\ pc \in {"trySign_loop", "signing", "verifying"}
             => (signtoolPath # Null /\ call.signtool = signtoolPath)
       /\ \A k \in SdkListings :
             k > 1 /\ log[k - 1].op = "trySign" /\ FirstSinceReset(k - 1)
       /\ \A k \in 1..Len(log) :
             IsSdkProbe(log[k])
             => k > 1 /\ (IsSdkListing(log[k - 1]) \/ IsSdkProbe(log[k - 1]))
       /\ \A m \in Marks :
             (Len(log) > m /\ FirstSinceReset(m) /\ ~IsSdkListing(log[m + 1]))
             => /\ \A r \in Resets : r > m
                /\ Resets = {} => signtoolPath = MockedPath
       /\ Resets = {} => Cardinality(SdkListings) <= 1

\* The first call lists the SDK directory, the second reuses the location,
\* the cache is reset and the third call lists the directory again.
C19_Witness ==
    /\ entry = "trySign_calls"
    /\ pc = "done"
    /\ Len(results) = 3
    /\ Cardinality(Resets) = 1
    /\ Cardinality(SdkListings) = 2
    /\ \E m \in Marks :
          /\ m < Max(Resets)
          /\ ~IsSdkListing(log[m + 1])
          /\ \E k \in SdkListings : k < m
    /\ \E k \in SdkListings : k > Max(Resets)

\* C20: for an unsupported extension trySign returns immediately: the retry
\* loop is not entered, so no wait is performed, and the signing tool is not
\* resolved (the SDK directory is neither listed nor probed) before it returns.
C20_UnsupportedReturnsImmediately ==
    (LastReturned /\ ~InSupportedSet(LastResult.file))
    => \A k \in 1..Len(LastSegment) :
          /\ ~IsWait(LastSegment[k])
          /\ ~IsSdkListing(LastSegment[k])
          /\ ~IsSdkProbe(LastSegment[k])

\* The first k - 1 commands of the call are rejected signing commands, the
\* k-th is a signing command that succeeded and the next its verification,
\* which succeeded too.
SucceedsAtAttempt(cmds, k) ==
    /\ Len(cmds) >= k + 1
    /\ \A j \in 1..(k - 1) : cmds[j].op = "sign" /\ ~cmds[j].ok
    /\ cmds[k].op = "sign" /\ cmds[k].ok
    /\ cmds[k + 1].op = "verify" /\ cmds[k + 1].ok

\* C21: for every k in 1..5, if the first k-1 signing invocations of a
\* supported file fail and the k-th signing invocation and its verification
\* succeed, trySign makes exactly k signing invocations and exactly one
\* verification invocation, waits k times and no more, and returns true.
C21_SuccessAtAttemptK ==
    LastReturned =>
        \A k \in 1..5 :
            SucceedsAtAttempt(LastCommands, k)
            => /\ Len(LastCommands) = k + 1
               /\ Len(SelectSeq(LastSegment, IsWait)) = k
               /\ LastResult.ret = TRUE
               /\ InSupportedSet(LastResult.file)

\* Four rejected signing commands, then the fifth and its verification succeed.
C21_Witness ==
    /\ LastReturned
    /\ SucceedsAtAttempt(LastCommands, 5)
    /\ Len(LastCommands) = 6
    /\ LastResult.ret = TRUE

\* C22: every verification command directly follows a successful signing
\* command of the same file with the same tool, every successful signing
\* command is directly followed by a verification command with the arguments
\* (verify, /pa, file), and a rejected signing command is followed by the
\* logged error, never by a verification.
C22_VerifyFollowsSign ==
    /\ \A k \in 1..Len(log) :
          /\ log[k].op = "verify"
                => /\ k > 1
                   /\ log[k - 1].op = "sign"
                   /\ log[k - 1].ok
                   /\ log[k - 1].target = log[k].target
                   /\ log[k].args = <<<<"verify">>, <<"/pa">>, FileOf(log[k - 1])>>
          /\ (log[k].op = "sign" /\ log[k].ok)
                => IF k < Len(log)
                   THEN log[k + 1].op = "verify"
                   ELSE /\ Len(inflight) = 1
                        /\ inflight[1].op = "verify"
                        /\ inflight[1].target = log[k].target
                        /\ inflight[1].args = <<<<"verify">>, <<"/pa">>, FileOf(log[k])>>
          /\ (log[k].op = "sign" /\ ~log[k].ok)
                => k < Len(log) /\ log[k + 1].op = "error"
    /\ \A k \in 1..Len(inflight) :
          inflight[k].op = "verify"
          => log # <<>> /\ log[Len(log)].op = "sign" /\ log[Len(log)].ok

\* A rejected signing command, then a successful one with its verification.
C22_Witness ==
    \E k \in 1..Len(log) :
        /\ log[k].op = "verify"
        /\ k > 4
        /\ log[k - 1].op = "sign" /\ log[k - 1].ok
        /\ log[k - 3].op = "error"
        /\ log[k - 4].op = "sign" /\ ~log[k - 4].ok

\* The arguments without the file-digest pair, when they have one.
WithoutFileDigest(args) ==
    IF HasFileDigest(args)
    THEN LET at == CHOOSE k \in 1..(Len(args) - 1) : args[k] = <<"/fd">> /\ args[k + 1] = <<"sha1">>
         IN SubSeq(args, 1, at - 1) \o SubSeq(args, at + 2, Len(args))
    ELSE args

\* C23: the arguments of each signing command are, in order: sign, /sm,
\* /t <timestamp server>, /sha1 <thumbprint>, then /d <description> if and
\* only if the configured description is non-empty, then, the file-digest
\* argument aside, the target file as the last argument. (Where the inputs
\* change under the call, C36 gives the values the arguments are built from.)
C23_SignArguments ==
    \A k \in 1..Len(inflight) :
        (inflight[k].op = "sign" /\ entry # "trySign_reconfig")
        => LET args == inflight[k].args
               head == <<<<"sign">>, <<"/sm">>, <<"/t">>, inputs.timestampServer,
                         <<"/sha1">>, inputs.sha1>>
           IN /\ WithoutFileDigest(args)
                    = IF inputs.certDesc # <<>>
                      THEN head \o <<<<"/d">>, inputs.certDesc, call.file>>
                      ELSE head \o <<call.file>>
              /\ args[Len(args)] = call.file

\* A signing command without description and one argument array of 7.
C23_Witness ==
    /\ inflight # <<>>
    /\ inflight[1].op = "sign"
    /\ inputs.certDesc = <<>>
    /\ Len(inflight[1].args) = 7
    /\ inflight[1].args[7] = <<"C:", "/", "test", "/", "file", ".", "dll">>

\* The directory name inside the path of a probed binary.
ProbedVersion(e) == SubSeq(e.target, 3, Len(e.target) - 6)

Probes == {k \in 1..Len(log) : IsSdkProbe(log[k])}

\* Four groups of decimal digits separated by three dots, and nothing else.
FourDottedNumbers(d) ==
    /\ d # <<>>
    /\ \A k \in 1..Len(d) : d[k] \in {".", "0", "1", "2", "3", "4", "5", "6", "7", "8", "9"}
    /\ Cardinality({k \in 1..Len(d) : d[k] = "."}) = 3
    /\ d[1] # "." /\ d[Len(d)] # "."
    /\ \A k \in 1..(Len(d) - 1) : ~(d[k] = "." /\ d[k + 1] = ".")

\* a > b, number by number, for two names of four dotted numbers.
NumericallyGreater(a, b) ==
    /\ FourDottedNumbers(a)
    /\ FourDottedNumbers(b)
    /\ Parts(a) # Parts(b)
    /\ NotLower(Parts(a), Parts(b))

\* C24: findSigntool probes only listed names made of four dotted numbers,
\* in strictly descending numeric order (10.0.17763.0 before 10.0.9.0, which a
\* comparison of strings would put first), leaving out no greater listed
\* version, and probes no further once one binary was found.
C24_ProbeOrder ==
    Resets = {}
    => \A k \in Probes :
          LET v == ProbedVersion(log[k])
          IN /\ FourDottedNumbers(v)
             /\ v \in Range(sdk.listing)
             /\ log[k].ok <=> v \in sdk.present
             /\ \A j \in Probes :
                   j < k => (~log[j].ok /\ NumericallyGreater(ProbedVersion(log[j]), v))
             /\ \A d \in Range(sdk.listing) :
                   NumericallyGreater(d, v)
                   => \E j \in Probes : j < k /\ ProbedVersion(log[j]) = d

\* 10.0.17763.0 was probed and found missing, then 10.0.9.0 was probed and
\* found, with a name that does not match the pattern in the listing.
C24_Witness ==
    /\ entry = "findSigntool"
    /\ pc = "findSigntool_return"
    /\ Len(sdk.listing) = 3
    /\ <<"1", "0", ".", "0", ".", "1">> \in Range(sdk.listing)
    /\ Cardinality(Probes) = 2
    /\ ProbedVersion(log[Min(Probes)]) = V(10, 0, 17763, 0)
    /\ ProbedVersion(log[Max(Probes)]) = V(10, 0, 9, 0)
    /\ located.version = V(10, 0, 9, 0)

\* The listings of the enumeration, those of the SDK directory left out.
FolderListings == {k \in 1..Len(log) : log[k].op = "readdir" /\ log[k].target # sdkBasePath}

\* C25: with recursive false the enumerator lists no subdirectory and yields
\* only matching regular files directly under the root; in either mode a
\* directory is never yielded, even when its name ends in a supported
\* extension, and an entry that is neither a regular file nor a directory is
\* neither yielded nor listed.
C25_DirectoriesNeverYielded ==
    Walks
    => /\ \A k \in Marks :
             /\ log[k].target \notin DOMAIN tree.dirs
             /\ log[k].target \notin tree.others
       /\ \A k \in FolderListings : log[k].target \notin tree.others
       /\ inputs.recursive # <<"true">>
             => /\ \A k \in FolderListings : log[k].target = inputs.folder
                /\ \A k \in Marks :
                      /\ \E f \in Range(tree.dirs[inputs.folder]) :
                             log[k].target = inputs.folder \o <<"/">> \o f
                      /\ \/ InSupportedSet(log[k].target)
                         \/ ExtName(log[k].target) = <<".", "nupkg">>

\* Non-recursive walk of the folder that holds a directory named x.exe and an
\* entry that is neither file nor directory: both were examined, nothing was
\* yielded.
C25_Witness ==
    /\ SignFilesCompleted
    /\ tree = TreeOdd
    /\ inputs.recursive = <<"false">>
    /\ Marks = {}
    /\ \E k \in 1..Len(log) :
          log[k].op = "stat" /\ log[k].ok /\ log[k].target = <<"folder", "/", "x", ".", "exe">>
    /\ \E k \in 1..Len(log) :
          log[k].op = "stat" /\ log[k].ok /\ log[k].target = <<"folder", "/", "dev">>

\* C26: a validation failure does not halt the pipeline: when validateInputs
\* reports a missing field, run() goes on to write the certificate, and when
\* the write and the import succeed it lists the folder and signs the files
\* the enumeration yields.
C26_ValidationNotFatal ==
    (entry = "run" /\ log # <<>> /\ ~log[1].ok)
    => /\ Len(log) = 2 => pc = "createCert"
       /\ Len(log) > 2 => log[3].op = "writeFile"
       /\ \A k \in 1..Len(log) :
             (log[k].op = "return" /\ log[k].ok)
             => \/ pc \in {"signFiles", "getFiles"} /\ k = Len(log)
                \/ /\ Len(log) > k
                   /\ log[k + 1].op = "readdir"
                   /\ log[k + 1].target = inputs.folder
       /\ SignFilesCompleted
             => \A k \in Marks :
                   InSupportedSet(log[k].target)
                   => \E j \in (k + 1)..Len(log) :
                         log[j].op = "sign" /\ FileOf(log[j]) = log[k].target

\* The thumbprint is missing, the validation said so, and the run went on to
\* sign a file, with an empty thumbprint.
C26_Witness ==
    /\ SignFilesCompleted
    /\ entry = "run"
    /\ ~log[1].ok
    /\ log[2].target = <<"cert-sha1 input must have a value.">>
    /\ \E k \in 1..Len(log) : log[k].op = "sign" /\ log[k].ok /\ log[k].args[6] = <<>>

OpsAt(op) == {k \in 1..Len(log) : log[k].op = op}

\* C27: in every run the stages come in the order certificate write, import
\* command, first listing of the target folder, first signing command; when
\* the write or the import failed the folder is never listed and trySign is
\* never called.
C27_StageOrder ==
    entry = "run"
    => /\ Cardinality(OpsAt("writeFile")) <= 1
       /\ Cardinality(OpsAt("certutil")) <= 1
       /\ \A c \in OpsAt("certutil") : \E w \in OpsAt("writeFile") : w < c /\ log[w].ok
       /\ \A k \in 1..Len(inflight) :
             /\ inflight[k].op = "certutil"
                   => \E w \in OpsAt("writeFile") : log[w].ok
             /\ inflight[k].op = "sign" => FolderListings # {}
       /\ \A l \in FolderListings \cup Marks :
             \E c \in OpsAt("certutil") : c < l /\ log[c].ok
       /\ \A m \in Marks : \E l \in FolderListings : l < m /\ log[l].ok
       /\ \A s \in OpsAt("sign") : \E m \in Marks : m < s
       /\ (WriteFailed \/ ImportFailed)
             => /\ FolderListings = {}
                /\ Marks = {}
                /\ pc \notin {"signFiles", "getFiles", "trySign"}

\* The write, the import, the listing of the folder and a signing command, in
\* that order.
C27_Witness ==
    /\ RunDone
    /\ \E w \in OpsAt("writeFile"), c \in OpsAt("certutil"), l \in FolderListings,
          s \in OpsAt("sign") :
          w < c /\ c < l /\ l < s /\ log[l].target = inputs.folder /\ log[s].ok

NoDuplicates(s) == \A j, k \in 1..Len(s) : j # k => s[j] # s[k]

\* C28: signFiles calls trySign exactly once for each path the enumerator
\* yields, in the order yielded, and each call gives one outcome; when the n
\* supported files among them all sign and verify at once there are exactly n
\* signing and n verification commands.
C28_OneCallPerYield ==
    Walks
    => LET calls == Yielded
       IN /\ NoDuplicates(calls)
          /\ Len(results) <= Len(calls)
          /\ Len(calls) <= Len(results) + 1
          /\ \A n \in 1..Len(results) : results[n].file = calls[n]
          /\ SignFilesCompleted => Len(results) = Len(calls)
          /\ (SignFilesCompleted /\ \A k \in 1..Len(log) : IsSignOrVerify(log[k]) => log[k].ok)
                => LET n == Cardinality({k \in 1..Len(calls) : InSupportedSet(calls[k])})
                   IN /\ CountOp(log, "sign") = n
                      /\ CountOp(log, "verify") = n
                      /\ \A k \in 1..Len(results) :
                            results[k].ret <=> InSupportedSet(results[k].file)

\* The three yielded paths of the test tree: three outcomes, two signing and
\* two verification commands, all successful.
C28_Witness ==
    /\ SignFilesCompleted
    /\ tree = TreeTest
    /\ Len(results) = 3
    /\ results[1].ret /\ results[2].ret /\ ~results[3].ret
    /\ CountOp(log, "sign") = 2
    /\ CountOp(log, "verify") = 2

\* C29: per-file signing failures never produce a terminal failure report: a
\* run in which the write, the import and the enumeration all succeed never
\* calls setFailed, whatever the outcome of each file.
C29_FileFailuresSilent ==
    (/\ entry = "run"
     /\ ~WriteFailed
     /\ ~ImportFailed
     /\ \A k \in 1..Len(log) : ~EnumFailureAt(k))
    => /\ CountOp(log, "setFailed") = 0
       /\ pc # "throw"
       /\ ~raised

\* Every yielded file ended with false, one of them after five rejected
\* signing commands, and the run reported nothing.
C29_Witness ==
    /\ RunDone
    /\ stage = "signFiles"
    /\ CountOp(log, "setFailed") = 0
    /\ Len(results) = 2
    /\ \A k \in 1..Len(results) : ~results[k].ret
    /\ Cardinality({k \in 1..Len(log) : log[k].op = "sign" /\ ~log[k].ok}) = 5

\* The call that gave results[n] met five rejected commands, one in each
\* attempt.
ExhaustedCall(n) ==
    Cardinality({k \in 1..Len(log) :
                    IsSignOrVerify(log[k]) /\ ~log[k].ok /\ FileOf(log[k]) = results[n].file}) = 5

\* C30 as stated: the result of trySign tells an unsupported extension from a
\* supported file whose five attempts all failed.
C30_Original ==
    entry \in {"run", "signFiles"}
    => \A j, k \in 1..Len(results) :
          (~InSupportedSet(results[j].file) /\ InSupportedSet(results[k].file) /\ ExhaustedCall(k))
          => results[j].ret # results[k].ret

\* C30 amended: the result of trySign is a boolean, true only for a supported
\* file that was signed and verified, and false both for an unsupported
\* extension and for a supported file whose five attempts all failed.
C30_BooleanOutcome ==
    entry \in {"run", "signFiles"}
    => \A k \in 1..Len(results) :
          /\ results[k].ret \in BOOLEAN
          /\ ~InSupportedSet(results[k].file) => results[k].ret = FALSE
          /\ (InSupportedSet(results[k].file) /\ ExhaustedCall(k)) => results[k].ret = FALSE
          /\ results[k].ret = TRUE
                => \E j \in 1..Len(log) :
                      log[j].op = "verify" /\ log[j].ok /\ FileOf(log[j]) = results[k].file

\* One file given up after five attempts and one skipped for its extension:
\* the same value for both.
C30_Witness ==
    /\ entry = "run"
    /\ \E j, k \in 1..Len(results) :
          /\ ~InSupportedSet(results[j].file)
          /\ InSupportedSet(results[k].file)
          /\ ExhaustedCall(k)
          /\ results[j].ret = results[k].ret

\* A listing or a stat made by the enumerator (not by the locator).
IsTreeEvent(e) ==
    /\ e.op \in {"readdir", "stat"}
    /\ e.target = <<>> \/ e.target[1] # sdkBasePath[1]

\* The stat at position k of the log found a regular file that getFiles yields.
YieldAt(k) ==
    /\ log[k].op = "stat"
    /\ IsTreeEvent(log[k])
    /\ log[k].ok
    /\ log[k].target \notin DOMAIN tree.dirs
    /\ log[k].target \notin tree.others
    /\ InSupportedSet(log[k].target) \/ ExtName(log[k].target) = <<".", "nupkg">>

\* The part of the log seg holds a whole trySign call on file: a successful
\* verification at its end, or five rejected commands, or for a file that is
\* not signable five waits and no command.
CallComplete(seg, file) ==
    LET cmds == SelectSeq(seg, IsSignOrVerify)
    IN /\ \A k \in 1..Len(cmds) : FileOf(cmds[k]) = file
       /\ IF InSupportedSet(file)
          THEN \/ cmds # <<>> /\ cmds[Len(cmds)].op = "verify" /\ cmds[Len(cmds)].ok
               \/ Cardinality({k \in 1..Len(cmds) : ~cmds[k].ok}) = 5
          ELSE cmds = <<>> /\ Len(SelectSeq(seg, IsWait)) = 5

\* The first position after m where the enumerator lists or stats again, or
\* the end of the log.
NextTreeEvent(m) == Min({k \in (m + 1)..Len(log) : IsTreeEvent(log[k])} \cup {Len(log) + 1})

RECURSIVE Repeat(_, _)
Repeat(s, n) == IF n = 0 THEN <<>> ELSE s \o Repeat(s, n - 1)

\* C31: the enumeration is incremental and interleaved with the signing: a
\* path is handed to trySign as soon as its stat found it, and all the
\* commands of that file have returned before the enumerator stats a later
\* entry or lists a later directory; each call of signFiles walks the tree
\* again from its root.
C31_IncrementalEnumeration ==
    entry \in {"run", "signFiles", "signFiles_calls"}
    => /\ \A k \in 1..Len(log) :
             YieldAt(k)
             => IF k = Len(log)
                THEN pc = "trySign" /\ call.file = log[k].target
                ELSE log[k + 1] = Info("trySign", log[k].target)
       /\ \A m \in Marks :
             /\ m > 1 /\ YieldAt(m - 1) /\ log[m - 1].target = log[m].target
             /\ NextTreeEvent(m) <= Len(log)
                   => CallComplete(SubSeq(log, m + 1, NextTreeEvent(m) - 1), log[m].target)
       /\ entry = "signFiles_calls"
             => /\ log # <<>> => 1 \in RootListings
                /\ (pc = "done" /\ ~raised)
                      => Yielded = Repeat(Enumerate(tree, inputs.folder,
                                                    inputs.recursive = <<"true">>, 1),
                                          Cardinality(RootListings))

\* The test tree was walked twice with the recursive flag: a.dll, sub/inner.exe
\* and pkg.nupkg were handed to trySign in each walk, and inner.exe was signed
\* before pkg.nupkg was stat-ed.
C31_Witness ==
    /\ entry = "signFiles_calls"
    /\ pc = "done"
    /\ ~raised
    /\ Cardinality(RootListings) = 2
    /\ Len(Yielded) = 6
    /\ Yielded[5] = <<"folder", "/", "sub", "/", "inner", ".", "exe">>
    /\ \E c, t \in 1..Len(log) :
          /\ c < t
          /\ log[c].op = "verify" /\ log[c].ok
          /\ FileOf(log[c]) = <<"folder", "/", "sub", "/", "inner", ".", "exe">>
          /\ log[t].op = "stat" /\ log[t].target = <<"folder", "/", "pkg", ".", "nupkg">>

\* The commands of one kind that were given a file and have returned.
CommandsOn(op, file) == {k \in 1..Len(log) : log[k].op = op /\ FileOf(log[k]) = file}

\* C32: run() always terminates: whatever the tree and whatever the commands
\* return, run() comes to its end, after a setFailed or not, and no file is
\* given more than 5 signing and 5 verification commands.
C32_RunTerminates ==
    /\ [](entry = "run"
          => /\ \A f \in Range(Yielded) :
                   /\ Cardinality(CommandsOn("sign", f)) <= 5
                   /\ Cardinality(CommandsOn("verify", f)) <= 5
             /\ CountOp(log, "sign") <= 5 * Len(Yielded)
             /\ CountOp(log, "wait") <= 5 * Len(Yielded)
             /\ CountOp(log, "setFailed") <= 1
             /\ ~raised)
    /\ (entry = "run") ~> (pc = "done" /\ inflight = <<>> /\ stack = <<>>)

\* run() has ended after a file was signed 5 times and verified 5 times, each
\* verification rejected.
C32_Witness ==
    /\ RunDone
    /\ \E f \in Range(Yielded) :
          /\ Cardinality(CommandsOn("sign", f)) = 5
          /\ Cardinality(CommandsOn("verify", f)) = 5

\* C33: trySign returns true exactly when, in one of its at most 5 attempts,
\* the signing command and the verification command that follows it both
\* succeeded; a rejected verification uses up its attempt like a rejected
\* signing command, and the next attempt signs the file again.
C33_TrueIffSignedAndVerified ==
    LastReturned =>
        LET cmds == LastCommands
            signs == {k \in 1..Len(cmds) : cmds[k].op = "sign"}
            rejected == {k \in 1..Len(cmds) : ~cmds[k].ok}
        IN /\ Cardinality(signs) <= 5
           /\ LastResult.ret
                 <=> \E k \in signs :
                        /\ cmds[k].ok
                        /\ k < Len(cmds)
                        /\ cmds[k + 1].op = "verify"
                        /\ cmds[k + 1].ok
           /\ \A k \in 1..Len(cmds) :
                 cmds[k].op = "verify" => (k > 1 /\ cmds[k - 1].op = "sign" /\ cmds[k - 1].ok)
           /\ Cardinality(signs) = Cardinality(rejected) + (IF LastResult.ret THEN 1 ELSE 0)
           /\ \A k \in FailedVerifies(cmds) :
                 IF k < Len(cmds)
                 THEN cmds[k + 1].op = "sign" /\ FileOf(cmds[k + 1]) = FileOf(cmds[k])
                 ELSE Cardinality(rejected) = 5 /\ ~LastResult.ret

\* Four attempts were signed and failed their verification; the fifth was
\* signed and verified, and trySign returned true.
C33_Witness ==
    /\ LastReturned
    /\ LastResult.ret
    /\ Cardinality(FailedVerifies(LastCommands)) = 4
    /\ Len(SelectSeq(LastCommands, IsSign)) = 5
    /\ Len(LastCommands) = 10

IsPackage(file) == ExtName(file) = <<".", "nupkg">>

\* C34: every .nupkg file the enumerator yields is handed to trySign, which
\* starts no signing and no verification command for it and returns false:
\* .nupkg passes the test of getFiles and is not in supportedFileExt.
C34_PackagesEnumeratedNotSigned ==
    entry \in {"run", "signFiles", "signFiles_calls"}
    => /\ <<".", "nupkg">> \notin Range(supportedFileExt)
       /\ \A k \in 1..Len(log) :
             /\ (log[k].op = "stat" /\ log[k].ok /\ IsPackage(log[k].target) /\ IsFile(log[k].target))
                   => IF k = Len(log)
                      THEN pc = "trySign" /\ call.file = log[k].target
                      ELSE log[k + 1] = Info("trySign", log[k].target)
             /\ IsSignOrVerify(log[k]) => ~IsPackage(FileOf(log[k]))
       /\ \A k \in 1..Len(inflight) :
             IsSignOrVerify(inflight[k]) => ~IsPackage(FileOf(inflight[k]))
       /\ \A n \in 1..Len(results) : IsPackage(results[n].file) => results[n].ret = FALSE

\* run() went through the test tree: a.dll was signed, pkg.nupkg was handed to
\* trySign, which returned false for it.
C34_Witness ==
    /\ RunDone
    /\ tree = TreeTest
    /\ Len(results) >= 2
    /\ results[1].ret
    /\ LastResult = [file |-> <<"folder", "/", "pkg", ".", "nupkg">>, ret |-> FALSE]
    /\ log[Max(Marks)].target = <<"folder", "/", "pkg", ".", "nupkg">>

\* C35: when the enumeration fails at a directory entry, every file yielded
\* before that entry has been through a whole trySign call (signed and
\* verified, or given up), no file is attempted after it, and nothing that was
\* signed is touched again although run() reports a terminal failure.
C35_FailureKeepsCompletedWork ==
    (entry \in {"run", "signFiles"} /\ \E k \in 1..Len(log) : EnumFailureAt(k))
    => LET k == CHOOSE x \in 1..Len(log) : EnumFailureAt(x)
       IN /\ \A m \in Marks :
                /\ m < k
                /\ CallComplete(SubSeq(log, m + 1, NextTreeEvent(m) - 1), log[m].target)
          /\ Len(results) = Cardinality(Marks)
          /\ \A n \in 1..Len(results) :
                /\ results[n].file = Yielded[n]
                /\ results[n].ret
                      <=> \E c \in 1..(k - 1) :
                             log[c].op = "verify" /\ log[c].ok /\ FileOf(log[c]) = results[n].file
          /\ ~InCall
          /\ \A j \in (k + 1)..Len(log) : log[j].op = "setFailed"
          /\ (entry = "run" /\ pc = "done") => CountOp(log, "setFailed") = 1

\* In the test tree a.dll was signed, sub/inner.exe was given up after five
\* attempts, then the stat of pkg.nupkg was rejected and run() reported it.
C35_Witness ==
    /\ RunDone
    /\ CountOp(log, "setFailed") = 1
    /\ Len(results) = 2
    /\ results[1].ret
    /\ ~results[2].ret
    /\ \E k \in 1..Len(log) :
          EnumFailureAt(k) /\ log[k].target = <<"folder", "/", "pkg", ".", "nupkg">>

\* The signing and verification commands of the latest trySign call, those
\* that returned and the one in flight.
LastAttempts == SelectSeq(LastCommands \o inflight, IsSignOrVerify)

\* C36: all the attempts of one trySign call use the same tool path and the
\* same signing arguments: the timestamp server, the thumbprint and the
\* description are read once when the call starts and the tool is resolved
\* once, so a change of the configuration during the retry loop does not alter
\* the later attempts.
C36_AttemptsIdentical ==
    Marks # {}
    => LET cmds == LastAttempts
       IN /\ \A k \in 1..Len(cmds) :
                /\ cmds[k].target = cmds[1].target
                /\ cmds[k].op = "sign" => cmds[k].args = cmds[1].args
                /\ cmds[k].op = "verify" => FileOf(cmds[k]) = FileOf(cmds[1])
          /\ (entry = "trySign_reconfig" /\ cmds # <<>>)
                => /\ cmds[1].target # OtherPath
                   /\ WithoutFileDigest(cmds[1].args)
                         = <<Str("sign"), Str("/sm"), Str("/t"), ValidInputs.timestampServer,
                             Str("/sha1"), ValidInputs.sha1, Str("/d"), ValidInputs.certDesc,
                             log[Max(Marks)].target>>

\* The first attempt was rejected, an input and the cached path were changed,
\* and the second attempt signed with the arguments and the tool of the first.
C36_Witness ==
    /\ entry = "trySign_reconfig"
    /\ LastReturned
    /\ LastResult.ret
    /\ inputs # ValidInputs
    /\ signtoolPath = OtherPath
    /\ \E a, b, c, d \in 1..Len(log) :
          /\ a < b /\ a < c /\ b < d /\ c < d
          /\ log[a].op = "sign" /\ ~log[a].ok
          /\ log[b].op = "setInputs"
          /\ log[c].op = "setSigntoolPath"
          /\ log[d].op = "sign" /\ log[d].ok
          /\ log[d].args = log[a].args
          /\ log[d].target = log[a].target

\* The order in which validateInputs tests the inputs.
FieldOrder == <<"folder", "certificate", "password", "sha1">>

\* The log entries that say an input is missing.
MissingReports ==
    {k \in 1..Len(log) :
        log[k].op = "error" /\ \E f \in RequiredInputs : log[k].target = MissingMessage(f)}

\* C37: a failing validateInputs logs exactly one error, for the first empty
\* input in the order folder, certificate, cert-password, cert-sha1; an input
\* later in that order is not reported even when it is empty too.
C37_FirstMissingOnly ==
    (log # <<>> /\ log[1].op = "validateInputs")
    => LET missing == {n \in 1..4 : inputs[FieldOrder[n]] = <<>>}
       IN IF missing = {}
          THEN MissingReports = {}
          ELSE /\ ~log[1].ok
               /\ Len(log) >= 2
               /\ MissingReports = {2}
               /\ log[2].target = MissingMessage(FieldOrder[Min(missing)])
               /\ \A n \in missing :
                     n # Min(missing) => log[2].target # MissingMessage(FieldOrder[n])

\* The certificate and the thumbprint are both empty: one error, which names
\* the certificate.
C37_Witness ==
    /\ entry = "validateInputs"
    /\ pc = "done"
    /\ {f \in RequiredInputs : inputs[f] = <<>>} = {"certificate", "sha1"}
    /\ log = <<Ev("validateInputs", EmptyStr, <<>>, FALSE),
               LogError("certificate input must have a value.")>>

\* Positions of the log where findSigntool gave up and returned the fallback.
Fallbacks == {k \in 1..Len(log) : log[k] = LogError("signtool discovery failed")}

\* C38: the fallback of a failed discovery is cached like a found path: once
\* findSigntool has returned the fallback, the later trySign calls of the
\* process use it and do not search again; and a path set through the hook
\* before the first call means the SDK directory is never listed nor probed.
C38_FallbackCached ==
    (entry \in {"run", "signFiles", "trySign", "trySign_calls"} /\ Resets = {})
    => /\ Cardinality(Fallbacks) <= 1
       /\ Fallbacks # {}
             => LET e == Max(Fallbacks)
                IN /\ Cardinality(SdkListings) = 1
                   /\ pc # "findSigntool_return" => signtoolPath = fallbackPath
                   /\ \A k \in 1..Len(log) : IsSignOrVerify(log[k]) => log[k].target = fallbackPath
                   /\ \A k \in 1..Len(inflight) : inflight[k].target = fallbackPath
                   /\ \A m \in Marks :
                         m > e => /\ m = Len(log) \/ ~IsSdkListing(log[m + 1])
                                  /\ \A k \in m..Len(log) : ~IsSdkProbe(log[k])
       /\ signtoolPath = MockedPath
             => /\ SdkListings = {}
                /\ \A k \in 1..Len(log) :
                      /\ ~IsSdkProbe(log[k])
                      /\ IsSignOrVerify(log[k]) => log[k].target = MockedPath

\* The SDK directory could not be listed: the first call fell back, and the
\* second call signed with the fallback path without listing it again.
C38_Witness ==
    /\ entry = "trySign_calls"
    /\ Resets = {}
    /\ pc = "done"
    /\ Len(results) = 2
    /\ Cardinality(Fallbacks) = 1
    /\ Cardinality(SdkListings) = 1
    /\ LastResult.ret
    /\ LastCommands # <<>>
    /\ LastCommands[1].target = fallbackPath
    /\ Max(Marks) > Max(Fallbacks)

====
